---- MODULE Spec2Model ----
(***************************************************************************)
(* A model of the options-scalper front end: the intraday pattern scans    *)
(* (PatternAnalyzer.findProfitablePatterns, App "Find Patterns"), the      *)
(* market-hours filter, the daily move scans, the synthetic option         *)
(* pricers, the day navigation of DayAnalysis / TradingChart / PriceChart  *)
(* and the contracts inputs.                                               *)
(*                                                                         *)
(* Units.  Money is an integer number of cents in the scans and an integer *)
(* number of hundredths of a cent (1e-4 $) in the pricers, where a         *)
(* quotient is rounded down to that unit; a percentage is kept as an       *)
(* integer number of 1e-4 percent.  Comparisons of the source that   *)
(* involve a quotient are made by cross-multiplication, so they are exact. *)
(* Array indices are those of the source (0-based): Bar(data, k) is        *)
(* data[k] of the source.                                                  *)
(***************************************************************************)
EXTENDS Integers, Sequences, FiniteSets, Bags, TLC

VARIABLES
    component,      \* which component the behaviour exercises
    nyOffset,       \* minutes from UTC to New York wall-clock time on the days of the data
    serverData,     \* the bars (data.results, ascending) the service holds for the request
    filters,        \* PatternAnalyzer: the filters state
    isLoading,      \* PatternAnalyzer: isLoading prop (onLoadingChange); App: isLoading
    pending,        \* the handler awaiting its fetch, with what its closure holds
    stockData,      \* the bars last delivered (onDataLoaded / setStockData)
    patterns,       \* the pattern list last delivered (onPatternsFound / setPatterns)
    scanRun,        \* history: what the scan that produced patterns read
    tzOffset,       \* hours from UTC to the local time of the browser
    selectedDate,   \* volatileDay.date / selectedDay.date / selectedDate prop
    selectedOption, \* selectedOption prop of DayAnalysis and TradingChart
    viewingDate,    \* DayAnalysis: viewingDate
    currentDate,    \* TradingChart: currentDate
    currentViewDate,\* PriceChart: currentViewDate
    chartMode,      \* DayAnalysis: chartMode
    viewMode,       \* TradingChart: viewMode prop; PriceChart: viewMode
    chartData,      \* DayAnalysis, TradingChart: what chartData was computed from
    multiDayData,   \* PriceChart: what multiDayData was loaded from
    loading,        \* DayAnalysis, TradingChart: loading
    fetches,        \* the requests in flight, each with what its closure holds
    lastNav,        \* history: the navigation the last step handled and the alert it raised
    priceIn,        \* what a pricer reads: the closes of the bars, the option, the days left
    chartPoints,    \* the chart points the pricer made of them
    dailyData,      \* the daily bars (data.results) the service holds for the scan
    dayFilters,     \* VolatilityFinder, VolatilityScanner: the filters state
    dayScan,        \* the scan awaiting its fetch, with the filters of its closure
    scanResults,    \* the days last delivered (setScanResults / setResults)
    dayRun,         \* history: the filters the scan that delivered scanResults read
    contracts,      \* App: contractsCount; AdvancedScanner, DayAnalysis: contracts
    lastEdit,       \* history: the text of the last edit of the contracts input
    selectedPattern,\* App: selectedPattern
    selectedDay,    \* AdvancedScanner: selectedDay prop
    opportunities,  \* AdvancedScanner: opportunities
    scanning,       \* AdvancedScanner: scanning
    scanFetches,    \* AdvancedScanner: the scans awaiting their fetch, each with its selectedDay
    lastResponse    \* history: the response the last load handled and whether it took it

scanVars == <<nyOffset, serverData, filters, isLoading, pending, stockData, patterns, scanRun>>
navVars == <<tzOffset, selectedDate, selectedOption, viewingDate, currentDate,
             currentViewDate, chartMode, viewMode, chartData, multiDayData, loading,
             fetches, lastNav>>
priceVars == <<priceIn, chartPoints>>
dailyVars == <<dailyData, dayFilters, dayScan, scanResults, dayRun>>
contractVars == <<contracts, lastEdit, selectedPattern>>
loadVars == <<selectedDay, opportunities, scanning, scanFetches, lastResponse>>
restVars == <<priceVars, dailyVars, contractVars, loadVars>>
vars == <<component, scanVars, navVars, restVars>>

Abs(x) == IF x < 0 THEN -x ELSE x
Min(a, b) == IF a <= b THEN a ELSE b
Max(a, b) == IF a >= b THEN a ELSE b

Bar(data, k) == data[k + 1]

NoRun == [ran |-> FALSE]
NoRequest == [active |-> FALSE]

(***************************************************************************)
(* Bounds of the model.                                                    *)
(***************************************************************************)
MaxLen == 22        \* longest bar list handed to a scan
MaxVar == 3         \* number of bars (from index WarmUp on) whose close and volume vary
MaxBars == 4        \* longest bar list handed to the market-hours filter alone
MaxDate == 10       \* last day of the dates of the day navigation
MaxFetches == 2     \* most requests of a chart in flight at once
MaxPoints == 3      \* longest bar list handed to a pricer
MaxDays == 2        \* most days between the viewed date and the expiry date
MaxDaily == 3       \* longest list of daily bars handed to a daily scan
MaxText == 3        \* longest text typed into a contracts input

(***************************************************************************)
(* Program constants of the two intraday scans.                            *)
(***************************************************************************)
WarmUp == 5             \* first entry index of both scans
AppMaxHold == 15        \* App: fixed look-ahead window
AppMinMove == 10        \* App: 0.10 $ in cents
SuccessProfit == 1000   \* 10 $ in cents: PatternAnalyzer success, App acceptance
DefaultMinMove == 10    \* PatternAnalyzer filters.minMove, 0.10 $
DefaultMaxHold == 15    \* PatternAnalyzer filters.maxHoldTime
DefaultMinVolume == 1000

\* The options of the Max Hold Time select that the model exercises.
MaxHoldOptions == {5, 15}

(***************************************************************************)
(* Input bars of the scans.  A bar is [t, close, volume]: t is the         *)
(* timestamp in minutes since 00:00 UTC of the first day, close is in      *)
(* cents.  The bars are one per minute from the session open on and flat   *)
(* (FlatBar) except for MaxVar bars from index WarmUp on, which take every *)
(* combination of BarKinds, and for at most one late spike bar at one of   *)
(* the indices SpikeAt (-1: none), which sit at and just past the end of   *)
(* the look-ahead windows of the first entries.  The scans never read the  *)
(* close of an index below WarmUp.                                         *)
(***************************************************************************)
BarKinds ==
    { [close |-> 10000, volume |-> 2000], [close |-> 10012, volume |-> 2000],
      [close |-> 10060, volume |-> 2000], [close |-> 10012, volume |-> 500] }
FlatBar == [close |-> 10000, volume |-> 2000]
SpikeBar == [close |-> 10060, volume |-> 2000]
SessionOpen == 570

VarWindow == WarmUp .. (WarmUp + MaxVar - 1)
SpikeAt == {-1, WarmUp + 5, WarmUp + 6, WarmUp + 15, WarmUp + 16}

GenData(len, v, spike, off) ==
    [k \in 1..len |->
        LET b == IF (k - 1) \in VarWindow THEN v[k - 1]
                 ELSE IF k - 1 = spike THEN SpikeBar
                 ELSE FlatBar
        IN [t |-> SessionOpen - off + k - 1, close |-> b.close, volume |-> b.volume]]

(***************************************************************************)
(* Input bars of the market-hours filter: at most MaxBars bars, ascending, *)
(* at instants around the session boundaries of Days consecutive days.     *)
(* The instants are given as New York wall-clock minutes of day under each *)
(* of the two offsets, so that under either offset some fall just before,  *)
(* at, and just after 09:30 and 16:00.                                     *)
(***************************************************************************)
NYOffsets == {-300, -240}       \* EST, EDT
DayMinutes == 24 * 60
BoundaryMinutes == {569, 570, 959, 960}
Days == {0, 1}
Instants == { d * DayMinutes + m - off : d \in Days, m \in BoundaryMinutes, off \in NYOffsets }

RECURSIVE AscendingBars(_)
AscendingBars(S) ==
    IF S = {} THEN <<>>
    ELSE LET t == CHOOSE x \in S : \A y \in S : x <= y
         IN <<[t |-> t, close |-> FlatBar.close, volume |-> FlatBar.volume]>>
                \o AscendingBars(S \ {t})

(***************************************************************************)
(* The market-hours filter                                                 *)
(***************************************************************************)
\* new Date(timestamp.toLocaleString("en-US", {timeZone: "America/New_York"})), then
\* getHours() * 60 + getMinutes(): the New York wall-clock minute of day
NYMinuteOfDay(t, off) == (t + off) % DayMinutes
NYDay(t, off) == (t + off) \div DayMinutes

\* PatternAnalyzer.loadHistoricalData: currentTime >= marketOpen && currentTime < marketClose
MarketOpen == 9 * 60 + 30
MarketClose == 16 * 60

\* a filter that drops the bar of the opening minute
InMarketHours_OpenExcluded(currentTime) == currentTime > MarketOpen /\ currentTime < MarketClose

InMarketHours(currentTime) == currentTime >= MarketOpen /\ currentTime < MarketClose

RECURSIVE MarketHoursData(_, _)
MarketHoursData(allData, off) ==
    IF allData = <<>> THEN <<>>
    ELSE LET rest == MarketHoursData(Tail(allData), off)
         IN IF InMarketHours(NYMinuteOfDay(Head(allData).t, off))
            THEN <<Head(allData)>> \o rest
            ELSE rest

\* a filter that keeps the bar of 16:00
AppInMarketHours_CloseIncluded(currentTime) == currentTime >= 570 /\ currentTime <= 960

\* App: currentTime >= 570 && currentTime < 960
AppInMarketHours(currentTime) == currentTime >= 570 /\ currentTime < 960

RECURSIVE AppMarketHoursData(_, _)
AppMarketHoursData(allData, off) ==
    IF allData = <<>> THEN <<>>
    ELSE LET rest == AppMarketHoursData(Tail(allData), off)
         IN IF AppInMarketHours(NYMinuteOfDay(Head(allData).t, off))
            THEN <<Head(allData)>> \o rest
            ELSE rest

(***************************************************************************)
(* PatternAnalyzer.findProfitablePatterns                                  *)
(***************************************************************************)
\* the initial value of leverage, as if no tier replaced it
Leverage_Initial(stockMove, entryClose) == 10

\* leverage tier of a move: movePercent = stockMove / entryClose * 100
Leverage(stockMove, entryClose) ==
    IF stockMove * 1000 < entryClose THEN 8             \* movePercent < 0.1
    ELSE IF stockMove * 1000 < 2 * entryClose THEN 15   \* movePercent < 0.2
    ELSE IF stockMove * 1000 < 5 * entryClose THEN 20   \* movePercent < 0.5
    ELSE 25

MovePercent(stockMove, entryClose) == (stockMove * 1000000) \div entryClose

\* the pattern pushed for entry index i and exit index j
MakePattern(data, i, j) ==
    LET entry == Bar(data, i)
        exit == Bar(data, j)
        stockMove == Abs(exit.close - entry.close)
        leverage == Leverage(stockMove, entry.close)
        estimatedProfit == stockMove * leverage
    IN [time |-> entry.t,
        entryPrice |-> entry.close,
        exitPrice |-> exit.close,
        stockMove |-> stockMove,
        movePercent |-> MovePercent(stockMove, entry.close),
        holdMinutes |-> j - i,
        direction |-> IF exit.close > entry.close THEN "CALL" ELSE "PUT",
        estimatedProfit |-> estimatedProfit,
        volume |-> entry.volume,
        success |-> estimatedProfit >= SuccessProfit]

\* a scan that keeps looking and takes the last qualifying exit of the window
RECURSIVE FirstExit_TakesLast(_, _, _, _, _)
FirstExit_TakesLast(data, i, j, hi, minMove) ==
    IF j > hi THEN -1
    ELSE LET later == FirstExit_TakesLast(data, i, j + 1, hi, minMove)
         IN IF later # -1 THEN later
            ELSE IF Abs(Bar(data, j).close - Bar(data, i).close) >= minMove THEN j
            ELSE -1

\* the inner loop from j on: the first j <= hi whose move reaches minMove, or -1
RECURSIVE FirstExit(_, _, _, _, _)
FirstExit(data, i, j, hi, minMove) ==
    IF j > hi THEN -1
    ELSE IF Abs(Bar(data, j).close - Bar(data, i).close) >= minMove THEN j
    ELSE FirstExit(data, i, j + 1, hi, minMove)

\* an inner loop that runs to the end of the list, whatever the hold window
LastExit_NoWindow(data, i, maxHold) == Len(data) - 1

\* the upper end of the inner loop of entry i
LastExit(data, i, maxHold) == Min(i + maxHold, Len(data) - 1)

\* an outer loop that runs up to the last bar but one
RECURSIVE ScanFrom_ToLastBar(_, _, _, _)
ScanFrom_ToLastBar(data, f, i, acc) ==
    IF ~(i < Len(data) - 1) THEN acc
    ELSE IF Bar(data, i).volume < f.minVolume THEN ScanFrom_ToLastBar(data, f, i + 1, acc)
    ELSE LET j == FirstExit(data, i, i + 1, LastExit(data, i, f.maxHoldTime), f.minMove)
         IN IF j = -1 THEN ScanFrom_ToLastBar(data, f, i + 1, acc)
            ELSE ScanFrom_ToLastBar(data, f, i + 1, Append(acc, MakePattern(data, i, j)))

\* the outer loop from i on, acc being the patterns pushed so far
RECURSIVE ScanFrom(_, _, _, _)
ScanFrom(data, f, i, acc) ==
    IF ~(i < Len(data) - f.maxHoldTime) THEN acc
    ELSE IF Bar(data, i).volume < f.minVolume THEN ScanFrom(data, f, i + 1, acc)
    ELSE LET j == FirstExit(data, i, i + 1, LastExit(data, i, f.maxHoldTime), f.minMove)
         IN IF j = -1 THEN ScanFrom(data, f, i + 1, acc)
            ELSE ScanFrom(data, f, i + 1, Append(acc, MakePattern(data, i, j)))

\* Array.prototype.sort((a, b) => b.estimatedProfit - a.estimatedProfit): a stable
\* sort, here by insertion from the left
RECURSIVE InsertByProfit(_, _)
InsertByProfit(sorted, p) ==
    IF sorted = <<>> THEN <<p>>
    ELSE LET last == sorted[Len(sorted)]
         IN IF last.estimatedProfit >= p.estimatedProfit
            THEN Append(sorted, p)
            ELSE Append(InsertByProfit(SubSeq(sorted, 1, Len(sorted) - 1), p), last)

SortByProfit_ScanOrder(ps) == ps

RECURSIVE SortByProfit(_)
SortByProfit(ps) ==
    IF ps = <<>> THEN <<>>
    ELSE InsertByProfit(SortByProfit(SubSeq(ps, 1, Len(ps) - 1)), ps[Len(ps)])

findProfitablePatterns_FromFour(data, f) ==
    SortByProfit(ScanFrom(data, f, WarmUp - 1, <<>>))

findProfitablePatterns(data, f) == SortByProfit(ScanFrom(data, f, WarmUp, <<>>))

(***************************************************************************)
(* App, "Find Patterns" onClick: the inline scan                           *)
(***************************************************************************)
AppLeverage(stockMove, entryClose) ==
    IF stockMove * 1000 < 2 * entryClose THEN 15 ELSE 20

AppMakePattern(data, i, j) ==
    LET entry == Bar(data, i)
        exit == Bar(data, j)
        stockMove == Abs(exit.close - entry.close)
        estimatedProfit == stockMove * AppLeverage(stockMove, entry.close)
    IN [time |-> entry.t,
        entryPrice |-> entry.close,
        exitPrice |-> exit.close,
        stockMove |-> stockMove,
        movePercent |-> MovePercent(stockMove, entry.close),
        holdMinutes |-> j - i,
        direction |-> IF exit.close > entry.close THEN "CALL" ELSE "PUT",
        estimatedProfit |-> estimatedProfit,
        volume |-> entry.volume,
        success |-> TRUE]

\* the inner loop from j on: the break sits inside the profit test, so an exit
\* whose move reaches 0.10 but whose estimated profit is below 10 is passed over
RECURSIVE AppFirstExit(_, _, _, _)
AppFirstExit(data, i, j, hi) ==
    IF j > hi THEN -1
    ELSE LET stockMove == Abs(Bar(data, j).close - Bar(data, i).close)
         IN IF stockMove >= AppMinMove
               /\ stockMove * AppLeverage(stockMove, Bar(data, i).close) >= SuccessProfit
            THEN j
            ELSE AppFirstExit(data, i, j + 1, hi)

RECURSIVE AppScanFrom(_, _, _)
AppScanFrom(data, i, acc) ==
    IF ~(i < Len(data) - AppMaxHold) THEN acc
    ELSE LET j == AppFirstExit(data, i, i + 1, LastExit(data, i, AppMaxHold))
         IN IF j = -1 THEN AppScanFrom(data, i + 1, acc)
            ELSE AppScanFrom(data, i + 1, Append(acc, AppMakePattern(data, i, j)))

AppFindPatterns(data) == SortByProfit(AppScanFrom(data, WarmUp, <<>>))

(***************************************************************************)
(* Calendar.  A date string "YYYY-MM-DD" is the number d of its day, with   *)
(* day 0 a Sunday, so that d % 7 is the day of the week of the date.  A     *)
(* Date object is an instant in hours since the UTC midnight of day 0.      *)
(* new Date("YYYY-MM-DD") is the UTC midnight of the date; getDate, setDate *)
(* and getDay work in the local time of the browser, toISOString in UTC.    *)
(* The zones of the model keep one offset all year.                         *)
(***************************************************************************)
DayHours == 24
TimeZones == {-5, 0}

NoDate == 0                                  \* the empty date string
ParseDate(d) == d * DayHours                 \* new Date(d)
LocalDayNumber(inst, tz) == (inst + tz) \div DayHours
GetDay(inst, tz) == LocalDayNumber(inst, tz) % 7
AddDays(inst, k) == inst + k * DayHours      \* setDate(getDate() + k)
ISODate(inst) == inst \div DayHours           \* toISOString().split('T')[0]
IsWeekendDate(d) == d % 7 \in {0, 6}

NoOption == [type |-> "none"]
EmptyChart == [date |-> NoDate, pricing |-> "none"]
NoNav == [op |-> "none", offset |-> 0, alert |-> "none"]

\* the components of the day navigation are not mounted
NavIdle ==
    /\ tzOffset = 0
    /\ selectedDate = NoDate
    /\ selectedOption = NoOption
    /\ viewingDate = NoDate
    /\ currentDate = NoDate
    /\ currentViewDate = NoDate
    /\ chartMode = "stock"
    /\ viewMode = "stock"
    /\ chartData = EmptyChart
    /\ multiDayData = EmptyChart
    /\ loading = FALSE
    /\ fetches = EmptyBag
    /\ lastNav = NoNav

NoInput == [closes |-> <<>>]

\* no pricer has run
PriceIdle ==
    /\ priceIn = NoInput
    /\ chartPoints = <<>>

\* no daily scanner is mounted
DailyIdle ==
    /\ dailyData = <<>>
    /\ dayFilters = [direction |-> "both"]
    /\ dayScan = NoRequest
    /\ scanResults = <<>>
    /\ dayRun = NoRun

NoEdit == [edited |-> FALSE]
NoPattern == [success |-> FALSE]

\* useState(1), useState(null)
ContractsIdle ==
    /\ contracts = 1
    /\ lastEdit = NoEdit
    /\ selectedPattern = NoPattern

NoDay == [date |-> NoDate]
NoResponse == [handled |-> FALSE]

\* useState([]), useState(false)
LoadIdle ==
    /\ selectedDay = NoDay
    /\ opportunities = <<>>
    /\ scanning = FALSE
    /\ scanFetches = EmptyBag
    /\ lastResponse = NoResponse

RestIdle == PriceIdle /\ DailyIdle /\ ContractsIdle /\ LoadIdle

(***************************************************************************)
(* The two handlers.  Each awaits one fetch: the click starts it, the      *)
(* response completes it.  The service answers with the bars it holds, or  *)
(* with a status that is neither OK nor DELAYED.                           *)
(***************************************************************************)
Statuses == {"OK", "DELAYED", "ERROR"}

\* the answers of the service that holds the bars results: any status, the results
\* present or missing
Responses(results) ==
    { [status |-> status, missing |-> missing, results |-> results] :
        status \in Statuses, missing \in BOOLEAN }

ScanIdle ==
    /\ filters = [minMove |-> DefaultMinMove, maxHoldTime |-> DefaultMaxHold,
                  minVolume |-> DefaultMinVolume]
    /\ isLoading = FALSE
    /\ pending = NoRequest
    /\ stockData = <<>>
    /\ patterns = <<>>
    /\ scanRun = NoRun

\* the lengths of the sessions scanned: no bar, one bar, and from the shortest list
\* that the smallest hold window leaves without an entry up to MaxLen; the lists in
\* between are too short for an entry, as the list of one bar is
ScanLens == {0, 1} \cup ((WarmUp + 5)..MaxLen)

\* session bars for the scans
ScanInit ==
    /\ component \in {"PatternAnalyzer", "App"}
    /\ nyOffset = -300
    /\ \E len \in ScanLens, v \in [VarWindow -> BarKinds], spike \in SpikeAt :
        serverData = GenData(len, v, spike, nyOffset)
    /\ ScanIdle
    /\ NavIdle
    /\ RestIdle

\* bars around the session boundaries for the filter
FilterInit ==
    /\ component \in {"PatternAnalyzer", "App"}
    /\ nyOffset \in NYOffsets
    /\ \E S \in SUBSET Instants :
        /\ Cardinality(S) <= MaxBars
        /\ serverData = AscendingBars(S)
    /\ ScanIdle
    /\ NavIdle
    /\ RestIdle

\* PatternAnalyzer: the Max Hold Time select
SetMaxHoldTime ==
    /\ component = "PatternAnalyzer"
    /\ \E h \in MaxHoldOptions :
        /\ h # filters.maxHoldTime
        /\ filters' = [filters EXCEPT !.maxHoldTime = h]
    /\ UNCHANGED <<component, nyOffset, serverData, isLoading, pending, stockData,
                   patterns, scanRun, navVars, restVars>>

\* PatternAnalyzer.analyzePatterns up to its await (the button is disabled while loading)
AnalyzePatterns ==
    /\ component = "PatternAnalyzer"
    /\ ~isLoading
    /\ isLoading' = TRUE
    /\ pending' = [active |-> TRUE, filters |-> filters]
    /\ UNCHANGED <<component, nyOffset, serverData, filters, stockData, patterns, scanRun,
                   navVars, restVars>>

\* PatternAnalyzer.analyzePatterns from the response on: loadHistoricalData throws on a
\* status that is neither OK nor DELAYED and on an empty result list
AnalyzePatternsDone ==
    /\ component = "PatternAnalyzer"
    /\ pending.active
    /\ \E status \in Statuses :
        IF status \notin {"OK", "DELAYED"} \/ serverData = <<>>
        THEN UNCHANGED <<stockData, patterns, scanRun>>
        ELSE LET marketHoursData == MarketHoursData(serverData, nyOffset)
             IN /\ stockData' = marketHoursData
                /\ patterns' = findProfitablePatterns(marketHoursData, pending.filters)
                /\ scanRun' = [ran |-> TRUE, maxHold |-> pending.filters.maxHoldTime,
                               minMove |-> pending.filters.minMove,
                               minVolume |-> pending.filters.minVolume]
    /\ isLoading' = FALSE
    /\ pending' = NoRequest
    /\ UNCHANGED <<component, nyOffset, serverData, filters, navVars, restVars>>

\* App: Find Patterns up to its await
FindPatterns ==
    /\ component = "App"
    /\ ~isLoading
    /\ isLoading' = TRUE
    /\ pending' = [active |-> TRUE]
    /\ UNCHANGED <<component, nyOffset, serverData, filters, stockData, patterns, scanRun,
                   navVars, restVars>>

\* App: the two tests of the response; a response is its status and its results,
\* which are a list or missing
App_Accepts(data) ==
    /\ ~(data.status # "OK" /\ data.status # "DELAYED")
    /\ ~(data.missing \/ Len(data.results) = 0)

\* App: Find Patterns from the response on
FindPatternsResponse(data) ==
    /\ component = "App"
    /\ pending.active
    /\ IF ~App_Accepts(data)
       THEN UNCHANGED <<stockData, patterns, scanRun>>
       ELSE LET marketHoursData == AppMarketHoursData(data.results, nyOffset)
            IN /\ stockData' = marketHoursData
               /\ patterns' = AppFindPatterns(marketHoursData)
               /\ scanRun' = [ran |-> TRUE, maxHold |-> AppMaxHold,
                              minMove |-> AppMinMove, minVolume |-> 0]
    /\ isLoading' = FALSE
    /\ pending' = NoRequest
    /\ UNCHANGED <<component, nyOffset, serverData, filters, navVars>>

FindPatternsDone ==
    /\ \E data \in Responses(serverData) : FindPatternsResponse(data)
    /\ UNCHANGED restVars

ScanNext ==
    \/ SetMaxHoldTime
    \/ AnalyzePatterns
    \/ AnalyzePatternsDone
    \/ FindPatterns
    \/ FindPatternsDone

SpecScan == ScanInit /\ [][ScanNext]_vars
SpecFilter == FilterInit /\ [][ScanNext]_vars

(***************************************************************************)
(* Properties of the intraday scans.                                       *)
(***************************************************************************)
MinOf(S) == CHOOSE x \in S : \A y \in S : x <= y

\* the entry indices the scan of the last run visited: the range of the outer loop,
\* less the entries the volume filter skipped
Visited == { i \in WarmUp .. (Len(stockData) - scanRun.maxHold - 1) :
                Bar(stockData, i).volume >= scanRun.minVolume }

\* the exits of entry i that qualify: inside the hold window and the list, move >= minMove
Qualifying(i) ==
    { j \in (i + 1) .. Min(i + scanRun.maxHold, Len(stockData) - 1) :
        Abs(Bar(stockData, j).close - Bar(stockData, i).close) >= scanRun.minMove }

PatternsOf(i) == { n \in 1..Len(patterns) : patterns[n].time = Bar(stockData, i).t }

\* C1: after PatternAnalyzer.findProfitablePatterns, every visited entry index that has
\* a qualifying exit has exactly one pattern, and its holdMinutes is the smallest
\* qualifying j - i.
C1_EarliestExit ==
    (component = "PatternAnalyzer" /\ scanRun.ran) =>
        \A i \in Visited :
            Qualifying(i) # {} =>
                /\ Cardinality(PatternsOf(i)) = 1
                /\ \A n \in PatternsOf(i) :
                       patterns[n].holdMinutes = MinOf({ j - i : j \in Qualifying(i) })

\* an entry with two qualifying exits, the later one the larger move, recorded with the
\* earlier one
C1_Witness ==
    /\ component = "PatternAnalyzer"
    /\ scanRun.ran
    /\ \E i \in Visited : \E j1, j2 \in Qualifying(i) :
          /\ j1 < j2
          /\ Abs(Bar(stockData, j2).close - Bar(stockData, i).close)
                > Abs(Bar(stockData, j1).close - Bar(stockData, i).close)
          /\ \E n \in PatternsOf(i) : patterns[n].holdMinutes = j1 - i

\* C7: every pattern of either scan has 1 <= holdMinutes <= the hold window of the run
\* (filters.maxHoldTime in PatternAnalyzer, 15 in App).
C7_HoldWithinWindow ==
    scanRun.ran =>
        \A n \in 1..Len(patterns) :
            /\ patterns[n].holdMinutes >= 1
            /\ patterns[n].holdMinutes <= scanRun.maxHold

\* App's scan has recorded a pattern held for the whole window of 15 and one held for
\* one minute
C7_Witness ==
    /\ component = "App"
    /\ scanRun.ran
    /\ \E n \in 1..Len(patterns) : patterns[n].holdMinutes = AppMaxHold
    /\ \E n \in 1..Len(patterns) : patterns[n].holdMinutes = 1


(***************************************************************************)
(* Properties of the market-hours filter.                                  *)
(***************************************************************************)
\* the New York minute of day of the k-th bar the service holds
MinuteOf(k) == NYMinuteOfDay(serverData[k].t, nyOffset)
DayOf(k) == NYDay(serverData[k].t, nyOffset)

\* the positions of serverData whose bar lies in [09:30, 16:00) New York time
Session == { k \in 1..Len(serverData) : MinuteOf(k) >= 570 /\ MinuteOf(k) < 960 }

\* out holds exactly the bars at the positions Session, in their order, each once
IsSessionOf(out) ==
    /\ Len(out) = Cardinality(Session)
    /\ \A n \in 1..Len(out) :
          \E k \in Session :
              /\ Cardinality({ k2 \in Session : k2 <= k }) = n
              /\ out[n] = serverData[k]

\* C8: the market-hours filter of PatternAnalyzer and of App keeps exactly the bars with
\* 570 <= m < 960 (New York minute of day), in input order, each once; an empty list
\* gives an empty list; the bars a successful load delivers are that list.
C8_FilterExact ==
    /\ component = "PatternAnalyzer" => IsSessionOf(MarketHoursData(serverData, nyOffset))
    /\ component = "App" => IsSessionOf(AppMarketHoursData(serverData, nyOffset))
    /\ scanRun.ran => IsSessionOf(stockData)

\* a load has delivered bars from a list holding a bar of 09:29, of 09:30, of 15:59 and
\* of 16:00
C8_Witness ==
    /\ scanRun.ran
    /\ Len(stockData) = 2
    /\ \E a, b, c, d \in 1..Len(serverData) :
          /\ MinuteOf(a) = 569 /\ MinuteOf(b) = 570 /\ MinuteOf(c) = 959 /\ MinuteOf(d) = 960
          /\ stockData = <<serverData[b], serverData[c]>>

\* the positions of serverData that PatternAnalyzer.loadHistoricalData has kept
KeptByLoad == { k \in 1..Len(serverData) : \E n \in 1..Len(stockData) : stockData[n] = serverData[k] }

\* C9 as claimed: the positions loadHistoricalData keeps form one contiguous run, and
\* every excluded bar lies outside [09:30, 16:00).
C9_OneRun ==
    (component = "PatternAnalyzer" /\ scanRun.ran) =>
        /\ \A a, b \in KeptByLoad :
              \A k \in a..b : k \in KeptByLoad
        /\ \A k \in (1..Len(serverData)) \ KeptByLoad :
              MinuteOf(k) < 570 \/ MinuteOf(k) >= 960

\* C9 amended: the positions loadHistoricalData keeps of one New York calendar day form
\* one contiguous run (one run per day of the range), and every excluded bar lies
\* outside [09:30, 16:00).
C9_OneRunPerDay ==
    (component = "PatternAnalyzer" /\ scanRun.ran) =>
        /\ \A a, b \in KeptByLoad :
              DayOf(a) = DayOf(b) => \A k \in a..b : k \in KeptByLoad
        /\ \A k \in (1..Len(serverData)) \ KeptByLoad :
              MinuteOf(k) < 570 \/ MinuteOf(k) >= 960

\* a load over two days has kept a run of two bars of one day between excluded bars
C9_Witness ==
    /\ component = "PatternAnalyzer"
    /\ scanRun.ran
    /\ \E a, b \in KeptByLoad :
          /\ a < b
          /\ DayOf(a) = DayOf(b)
          /\ a - 1 \in (1..Len(serverData)) \ KeptByLoad
          /\ b + 1 \in (1..Len(serverData)) \ KeptByLoad
          /\ DayOf(b + 1) # DayOf(b)

(***************************************************************************)
(* Day navigation.  loadDayData reads the view mode and the selected       *)
(* option of the render whose closure called it; a request in flight keeps *)
(* the date it asked for, the pricing its chart points will get and the    *)
(* date the days to expiry are counted from.  The service answers a        *)
(* request with bars, with no bars, or with a failure; the answers arrive  *)
(* in any order.                                                           *)
(***************************************************************************)
Dates == { d \in 1..MaxDate : d + 5 >= MaxDate }
Weekdays == { d \in Dates : ~IsWeekendDate(d) }
NavStrikes == {100}
OptionTypes == {"CALL", "PUT"}
Outcomes == {"bars", "empty", "error"}

StockPricing == [type |-> "stock"]
Pricing(mode, opt) == IF mode = "option" /\ opt # NoOption THEN opt ELSE StockPricing

LoadRequest(date, mode, opt, asOf) ==
    [date |-> date, pricing |-> Pricing(mode, opt),
     asOf |-> IF Pricing(mode, opt) = StockPricing THEN date ELSE asOf]

Nav(op, offset, alert) == [op |-> op, offset |-> offset, alert |-> alert]

InFlight == BagCardinality(fetches)

\* loadDayData up to its await, for each request of reqs
StartLoads(reqs) ==
    /\ loading' = TRUE
    /\ fetches' = IF Len(reqs) = 1 THEN fetches (+) SetToBag({reqs[1]})
                  ELSE fetches (+) SetToBag({reqs[1]}) (+) SetToBag({reqs[2]})

\* a loadDayData that resets loading at the end of its try block, not in a finally
FinishLoad_ResetInTry(r, outcome) ==
    /\ BagIn(r, fetches)
    /\ fetches' = fetches (-) SetToBag({r})
    /\ chartData' = IF outcome = "bars" THEN r ELSE EmptyChart
    /\ loading' = IF outcome = "error" THEN loading ELSE FALSE
    /\ lastNav' = NoNav

\* loadDayData from the response on
FinishLoad(r, outcome) ==
    /\ BagIn(r, fetches)
    /\ fetches' = fetches (-) SetToBag({r})
    /\ chartData' = IF outcome = "bars" THEN r ELSE EmptyChart
    /\ loading' = FALSE
    /\ lastNav' = NoNav

(***************************************************************************)
(* DayAnalysis.                                                            *)
(***************************************************************************)
daFrame == <<component, scanVars, restVars, tzOffset, selectedDate, currentDate, currentViewDate,
             viewMode, multiDayData>>

\* the parent stores the option that onOptionSelect hands it; the effect on the
\* strike and the type of the option reloads the viewed day
DA_SelectOption ==
    /\ component = "DayAnalysis"
    /\ InFlight < MaxFetches
    /\ \E strike \in NavStrikes, type \in OptionTypes :
        LET opt == [type |-> type, strike |-> strike, expiryDate |-> selectedDate]
        IN /\ opt # selectedOption
           /\ selectedOption' = opt
           /\ StartLoads(<<LoadRequest(viewingDate, chartMode, opt, viewingDate)>>)
    /\ lastNav' = NoNav
    /\ UNCHANGED <<daFrame, viewingDate, chartMode, chartData>>

DA_Reject_MovesAnyway(offset, alert) ==
    /\ lastNav' = Nav("navigateDay", offset, alert)
    /\ viewingDate' = viewingDate + offset
    /\ UNCHANGED <<daFrame, selectedOption, chartMode, chartData, loading, fetches>>

\* navigateDay: alert(...); return
DA_Reject(offset, alert) ==
    /\ lastNav' = Nav("navigateDay", offset, alert)
    /\ UNCHANGED <<daFrame, selectedOption, viewingDate, chartMode, chartData, loading,
                   fetches>>

\* the Previous Day and Next Day buttons: navigateDay(offset), and the effect on
\* viewingDate that loads the day
DA_NavigateDay(offset) ==
    /\ component = "DayAnalysis"
    /\ selectedOption # NoOption
    /\ ~loading
    /\ offset = 1 => viewingDate < selectedOption.expiryDate
    /\ LET newDate == AddDays(ParseDate(viewingDate), offset)
           expiryDate == ParseDate(selectedOption.expiryDate)
           dayOfWeek == GetDay(newDate, tzOffset)
       IN IF newDate > expiryDate THEN DA_Reject(offset, "expiry")
          ELSE IF dayOfWeek = 0 \/ dayOfWeek = 6 THEN DA_Reject(offset, "weekend")
          ELSE /\ ISODate(newDate) \in Dates
               /\ viewingDate' = ISODate(newDate)
               /\ StartLoads(<<LoadRequest(ISODate(newDate), chartMode, selectedOption,
                                           ISODate(newDate))>>)
               /\ lastNav' = Nav("navigateDay", offset, "none")
               /\ UNCHANGED <<daFrame, selectedOption, chartMode, chartData>>

\* the date input: setViewingDate(e.target.value), and the effect on viewingDate
DA_DateInput ==
    /\ component = "DayAnalysis"
    /\ selectedOption # NoOption
    /\ InFlight < MaxFetches
    /\ \E d \in Dates :
        /\ d # viewingDate
        /\ viewingDate' = d
        /\ StartLoads(<<LoadRequest(d, chartMode, selectedOption, d)>>)
    /\ lastNav' = NoNav
    /\ UNCHANGED <<daFrame, selectedOption, chartMode, chartData>>

\* the Stock Price and Option Price buttons: setChartMode(mode) and loadDayData of
\* the render that drew the button, then the effect on chartMode
DA_SetChartMode ==
    /\ component = "DayAnalysis"
    /\ \E mode \in {"stock", "option"} :
        /\ mode = "option" => selectedOption # NoOption
        /\ chartMode' = mode
        /\ LET direct == LoadRequest(viewingDate, chartMode, selectedOption, viewingDate)
               effect == LoadRequest(viewingDate, mode, selectedOption, viewingDate)
           IN IF mode = chartMode
              THEN InFlight < MaxFetches /\ StartLoads(<<direct>>)
              ELSE InFlight + 1 < MaxFetches /\ StartLoads(<<direct, effect>>)
    /\ lastNav' = NoNav
    /\ UNCHANGED <<daFrame, selectedOption, viewingDate, chartData>>

DA_LoadDone ==
    /\ component = "DayAnalysis"
    /\ \E r \in BagToSet(fetches), outcome \in Outcomes : FinishLoad(r, outcome)
    /\ UNCHANGED <<daFrame, selectedOption, viewingDate, chartMode>>

(***************************************************************************)
(* TradingChart.                                                           *)
(***************************************************************************)
tcFrame == <<component, scanVars, restVars, tzOffset, selectedDate, viewingDate, currentViewDate,
             chartMode, multiDayData>>

\* AdvancedScanner hands onOptionSelect the option with the selected day as its
\* expiry; the parent passes it down as the selectedOption prop
TC_SelectOption ==
    /\ component = "TradingChart"
    /\ \E strike \in NavStrikes, type \in OptionTypes :
        LET opt == [type |-> type, strike |-> strike, expiryDate |-> selectedDate]
        IN /\ opt # selectedOption
           /\ selectedOption' = opt
    /\ lastNav' = NoNav
    /\ UNCHANGED <<tcFrame, currentDate, viewMode, chartData, loading, fetches>>

\* the parent answers onViewModeChange(mode) with the viewMode prop; the effect on
\* viewMode reloads the viewed day
TC_SetViewMode ==
    /\ component = "TradingChart"
    /\ InFlight < MaxFetches
    /\ \E mode \in {"stock", "option"} :
        /\ mode # viewMode
        /\ viewMode' = mode
        /\ StartLoads(<<LoadRequest(currentDate, mode, selectedOption, currentDate)>>)
    /\ lastNav' = NoNav
    /\ UNCHANGED <<tcFrame, selectedOption, currentDate, chartData>>

\* setCurrentDate(newDateStr) and loadDayData(newDateStr) of the render that drew
\* the control, then the effect on currentDate if the date changed
TC_ShowDate(newDateStr) ==
    LET direct == LoadRequest(newDateStr, viewMode, selectedOption, currentDate)
        effect == LoadRequest(newDateStr, viewMode, selectedOption, newDateStr)
    IN /\ currentDate' = newDateStr
       /\ IF newDateStr = currentDate
          THEN InFlight < MaxFetches /\ StartLoads(<<direct>>)
          ELSE InFlight + 1 < MaxFetches /\ StartLoads(<<direct, effect>>)

\* the Prev and Next buttons: navigateDay(offset)
TC_NavigateDay(offset) ==
    /\ component = "TradingChart"
    /\ ~loading
    /\ LET moved == AddDays(ParseDate(currentDate), offset)
           dayOfWeek == GetDay(moved, tzOffset)
           newDate == IF dayOfWeek = 0 THEN AddDays(moved, 1)
                      ELSE IF dayOfWeek = 6 THEN AddDays(moved, 2)
                      ELSE moved
       IN /\ ISODate(newDate) \in Dates
          /\ TC_ShowDate(ISODate(newDate))
    /\ lastNav' = Nav("navigateDay", offset, "none")
    /\ UNCHANGED <<tcFrame, selectedOption, viewMode, chartData>>

\* the date input
TC_DateInput ==
    /\ component = "TradingChart"
    /\ \E d \in Dates :
        /\ d # currentDate
        /\ TC_ShowDate(d)
    /\ lastNav' = NoNav
    /\ UNCHANGED <<tcFrame, selectedOption, viewMode, chartData>>

TC_LoadDone ==
    /\ component = "TradingChart"
    /\ \E r \in BagToSet(fetches), outcome \in Outcomes : FinishLoad(r, outcome)
    /\ UNCHANGED <<tcFrame, selectedOption, currentDate, viewMode>>

(***************************************************************************)
(* PriceChart, with a pattern selected.                                    *)
(***************************************************************************)
pcFrame == <<component, scanVars, restVars, tzOffset, selectedDate, selectedOption, viewingDate,
             currentDate, chartMode, chartData, loading>>

DayOffsets == {-7, -1, 1, 7}

PC_SetViewMode ==
    /\ component = "PriceChart"
    /\ \E mode \in {"stock", "option", "multi-day"} :
        /\ mode # viewMode
        /\ viewMode' = mode
    /\ lastNav' = NoNav
    /\ UNCHANGED <<pcFrame, currentViewDate, multiDayData, fetches>>

PC_Reject_ShowsAnyway(dayOffset, alert) ==
    /\ lastNav' = Nav("loadDifferentDay", dayOffset, alert)
    /\ currentViewDate' = selectedDate + dayOffset
    /\ UNCHANGED <<pcFrame, viewMode, multiDayData, fetches>>

\* loadDifferentDay: alert(...); return
PC_Reject(dayOffset, alert) ==
    /\ lastNav' = Nav("loadDifferentDay", dayOffset, alert)
    /\ UNCHANGED <<pcFrame, viewMode, currentViewDate, multiDayData, fetches>>

\* day buttons that step from the day in view, once a day is in view
PC_LoadDifferentDay_FromViewDate(dayOffset) ==
    /\ component = "PriceChart"
    /\ viewMode = "multi-day"
    /\ selectedDate # NoDate
    /\ LET from == IF currentViewDate = NoDate THEN selectedDate ELSE currentViewDate
           baseDate == AddDays(ParseDate(from), dayOffset)
           targetDate == ISODate(baseDate)
           dayOfWeek == GetDay(baseDate, tzOffset)
       IN IF dayOfWeek = 0 \/ dayOfWeek = 6 THEN PC_Reject(dayOffset, "weekend")
          ELSE /\ InFlight < MaxFetches
               /\ targetDate \in 1..(3 * MaxDate)
               /\ currentViewDate' = targetDate
               /\ fetches' = fetches (+) SetToBag({[date |-> targetDate]})
               /\ lastNav' = Nav("loadDifferentDay", dayOffset, "none")
               /\ UNCHANGED <<pcFrame, viewMode, multiDayData>>

\* the day buttons of the multi-day view: loadDifferentDay(dayOffset) up to its await
PC_LoadDifferentDay(dayOffset) ==
    /\ component = "PriceChart"
    /\ viewMode = "multi-day"
    /\ selectedDate # NoDate
    /\ LET baseDate == AddDays(ParseDate(selectedDate), dayOffset)
           targetDate == ISODate(baseDate)
           dayOfWeek == GetDay(baseDate, tzOffset)
       IN IF dayOfWeek = 0 \/ dayOfWeek = 6 THEN PC_Reject(dayOffset, "weekend")
          ELSE /\ InFlight < MaxFetches
               /\ currentViewDate' = targetDate
               /\ fetches' = fetches (+) SetToBag({[date |-> targetDate]})
               /\ lastNav' = Nav("loadDifferentDay", dayOffset, "none")
               /\ UNCHANGED <<pcFrame, viewMode, multiDayData>>

\* loadDifferentDay from the response on
PC_LoadDone ==
    /\ component = "PriceChart"
    /\ \E r \in BagToSet(fetches), outcome \in Outcomes :
        /\ fetches' = fetches (-) SetToBag({r})
        /\ multiDayData' = IF outcome = "bars" THEN r ELSE multiDayData
        /\ lastNav' = NoNav
    /\ UNCHANGED <<pcFrame, viewMode, currentViewDate>>

(***************************************************************************)
(* The navigation specification.  A chart is mounted on a trading day of   *)
(* the scan; DayAnalysis and TradingChart have started the load of their   *)
(* mount effect.                                                           *)
(***************************************************************************)
SelectedDates == { d \in Weekdays : d + 2 = MaxDate }

NavInit ==
    /\ component \in {"DayAnalysis", "TradingChart", "PriceChart"}
    /\ nyOffset = -300
    /\ serverData = <<>>
    /\ ScanIdle
    /\ tzOffset \in TimeZones
    /\ selectedDate \in SelectedDates
    /\ selectedOption = NoOption
    /\ viewingDate = IF component = "DayAnalysis" THEN selectedDate ELSE NoDate
    /\ currentDate = IF component = "TradingChart" THEN selectedDate ELSE NoDate
    /\ currentViewDate = NoDate
    /\ chartMode = "stock"
    /\ viewMode = "stock"
    /\ chartData = EmptyChart
    /\ multiDayData = EmptyChart
    /\ loading = (component # "PriceChart")
    /\ fetches = IF component = "PriceChart" THEN EmptyBag
                 ELSE SetToBag({LoadRequest(selectedDate, "stock", NoOption, selectedDate)})
    /\ lastNav = NoNav
    /\ RestIdle

NavNext ==
    \/ DA_SelectOption
    \/ \E offset \in {-1, 1} : DA_NavigateDay(offset)
    \/ DA_DateInput
    \/ DA_SetChartMode
    \/ DA_LoadDone
    \/ TC_SelectOption
    \/ TC_SetViewMode
    \/ \E offset \in {-1, 1} : TC_NavigateDay(offset)
    \/ TC_DateInput
    \/ TC_LoadDone
    \/ PC_SetViewMode
    \/ \E dayOffset \in DayOffsets : PC_LoadDifferentDay(dayOffset)
    \/ PC_LoadDone

SpecNav == NavInit /\ [][NavNext]_vars

(***************************************************************************)
(* Properties of the day navigation.                                       *)
(***************************************************************************)
\* the date the chart of the mounted component views
ViewDate == IF component = "DayAnalysis" THEN viewingDate ELSE currentDate

\* C2: while an option is selected, the date that DayAnalysis or TradingChart views is
\* never later than the expiry date of the option and never a Saturday or a Sunday,
\* whatever the user did (day buttons, date input, option selection, chart mode).
C2_ViewDateValid ==
    (component \in {"DayAnalysis", "TradingChart"} /\ selectedOption # NoOption)
        => (ViewDate <= selectedOption.expiryDate /\ ~IsWeekendDate(ViewDate))

\* C3: DayAnalysis.navigateDay(offset) rejects the target viewingDate + offset when it
\* is later than the expiry date and when it is a Saturday or a Sunday; the viewing
\* date it accepts is the target, a weekday on or before the expiry date.
C3_NavigateDayRejects ==
    [][ (component = "DayAnalysis" /\ lastNav'.op = "navigateDay") =>
          LET target == viewingDate + lastNav'.offset
              accepted == lastNav'.alert = "none"
          IN /\ target > selectedOption.expiryDate => ~accepted
             /\ IsWeekendDate(target) => ~accepted
             /\ accepted => /\ viewingDate' = target
                            /\ ~IsWeekendDate(target)
                            /\ target <= selectedOption.expiryDate ]_vars

\* C4: a navigation that DayAnalysis.navigateDay or PriceChart.loadDifferentDay
\* rejects (an alert for a day past the expiry or for a weekend) leaves the viewed
\* date and the chart data as they were and starts no fetch.
C4_RejectedLeavesState ==
    [][ lastNav'.alert \in {"expiry", "weekend"} =>
          UNCHANGED <<viewingDate, currentViewDate, chartData, multiDayData, loading,
                      fetches>> ]_vars

\* DayAnalysis shows the bars of a loaded day and has just rejected a step onto a
\* weekend
C4_Witness ==
    /\ component = "DayAnalysis"
    /\ lastNav.op = "navigateDay"
    /\ lastNav.alert = "weekend"
    /\ chartData # EmptyChart
    /\ fetches = EmptyBag

(***************************************************************************)
(* The synthetic option pricers.  Closes, strikes and entry prices are in  *)
(* cents, option prices and time values in 1e-4 $.  index is the 0-based   *)
(* position of the bar in the list of len bars that is mapped.             *)
(***************************************************************************)
PriceFloor == 100       \* 0.01 $

ISqrt(x) == CHOOSE r \in 0..1500 : r * r <= x /\ (r + 1) * (r + 1) > x

Intrinsic(type, close, strike) ==
    100 * (IF type = "CALL" THEN Max(0, close - strike) ELSE Max(0, strike - close))

\* days to the expiry counted without the clamp at 0
DA_DaysToExpiry_Unclamped(dayDiff) == dayDiff

\* DayAnalysis: Math.max(0, Math.floor(days between the target date and the expiry))
DA_DaysToExpiry(dayDiff) == Max(0, dayDiff)

\* Math.max(0.01, 1 - timeProgress * 2), in 1 / (100 * len)
DA_Decay_OverWholeDay(index, len) == Max(len, 100 * len - 100 * index)

DA_Decay(index, len) == Max(len, 100 * len - 200 * index)

DA_TimeValue(close, strike, daysToExpiry, index, len) ==
    LET distanceFromStrike == Abs(close - strike)
    IN IF daysToExpiry = 0
       THEN LET baseTimeValue == Max(200, 1000 - distanceFromStrike)
            IN (baseTimeValue * DA_Decay(index, len)) \div (100 * len)
       ELSE IF daysToExpiry > 0
       THEN LET baseTimeValue == ISqrt((daysToExpiry * 2250000) \div 365)
                moneyness == Max(3000, 10000 - 2 * distanceFromStrike)  \* in 1e-4
            IN (baseTimeValue * moneyness) \div 10000
       ELSE 0

DA_OptionPrice_NoFloor(close, strike, type, daysToExpiry, index, len) ==
    Intrinsic(type, close, strike) + DA_TimeValue(close, strike, daysToExpiry, index, len)

DA_OptionPrice(close, strike, type, daysToExpiry, index, len) ==
    Max(PriceFloor,
        Intrinsic(type, close, strike) + DA_TimeValue(close, strike, daysToExpiry, index, len))

\* TradingChart: Math.max(0, days between currentDate and the expiry)
TC_DaysUntilExpiry(dayDiff) == Max(0, dayDiff)

TC_TimeValue(daysUntilExpiry, index, len) ==
    IF daysUntilExpiry = 0
    THEN LET timeDecayFactor == Max(5 * len, 100 * (len - index))   \* in 1 / (100 * len)
         IN (3000 * timeDecayFactor) \div (100 * len)
    ELSE 5000 + daysUntilExpiry * 2000

TC_OptionPrice(close, strike, type, daysUntilExpiry, index, len) ==
    Max(PriceFloor, Intrinsic(type, close, strike) + TC_TimeValue(daysUntilExpiry, index, len))

\* Math.round of a dollar amount, in cents
RoundDollars(cents) == ((cents + 50) \div 100) * 100

\* PriceChart.getChartData, viewMode 'option'
PC_OptionPrice(close, entryPrice, direction, index, len) ==
    LET strikePrice == RoundDollars(entryPrice)
        timeDecayFactor == Max(len, 10 * (len - index))      \* in 1 / (10 * len)
        timeValue == (2500 * timeDecayFactor) \div (10 * len)
        stockMoveFromStrike == Abs(close - strikePrice)
        delta == Max(100, Min(900, 1000 - stockMoveFromStrike)) \* in 1e-3
    IN Max(PriceFloor, Intrinsic(direction, close, strikePrice) + timeValue + delta)

\* PriceChart.getChartData, viewMode 'multi-day'
PC_MultiDayPrice(close, entryPrice, direction, index, len) ==
    LET strikePrice == RoundDollars(entryPrice)
        timeDecayFactor == Max(len, 10 * (len - index))      \* in 1 / (10 * len)
        timeValue == (5000 * timeDecayFactor) \div (10 * len)
    IN Max(PriceFloor, Intrinsic(direction, close, strikePrice) + timeValue)

Point(price, close) == [price |-> price, stockPrice |-> close]

\* the point DayAnalysis returns in option mode
DA_Point(price, close, daysToExpiry) ==
    [price |-> price, stockPrice |-> close, daysToExpiry |-> daysToExpiry,
     expired |-> daysToExpiry < 0]

DA_ChartPoints(in) ==
    LET daysToExpiry == DA_DaysToExpiry(in.dayDiff)
    IN [k \in 1..Len(in.closes) |->
           DA_Point(DA_OptionPrice(in.closes[k], in.strike, in.type, daysToExpiry,
                                   k - 1, Len(in.closes)),
                    in.closes[k], daysToExpiry)]

TC_ChartPoints(in) ==
    [k \in 1..Len(in.closes) |->
        Point(TC_OptionPrice(in.closes[k], in.strike, in.type,
                             TC_DaysUntilExpiry(in.dayDiff), k - 1, Len(in.closes)),
              in.closes[k])]

PC_ChartData(mode, in) ==
    [k \in 1..Len(in.closes) |->
        Point(IF mode = "option"
              THEN PC_OptionPrice(in.closes[k], in.entryPrice, in.type, k - 1, Len(in.closes))
              ELSE PC_MultiDayPrice(in.closes[k], in.entryPrice, in.type, k - 1,
                                    Len(in.closes)),
              in.closes[k])]

(***************************************************************************)
(* The pricing specification: a chart in option mode maps the bars it has  *)
(* loaded to price points.                                                 *)
(***************************************************************************)
PriceCloses == {9000, 9950, 10000, 10050, 11000}
PriceStrike == 100 * 100
EntryPrices == {9950, 10049}
DayDiffs == (-1)..MaxDays

RECURSIVE CloseLists(_)
CloseLists(n) ==
    IF n = 0 THEN {<<>>}
    ELSE CloseLists(n - 1) \cup
         { Append(l, c) : l \in { m \in CloseLists(n - 1) : Len(m) = n - 1 },
                          c \in PriceCloses }

PriceFrame == <<component, scanVars, navVars, dailyVars, contractVars, loadVars, priceIn>>

PriceInit ==
    /\ component \in {"DayAnalysis", "TradingChart", "PriceChart"}
    /\ nyOffset = -300
    /\ serverData = <<>>
    /\ ScanIdle
    /\ NavIdle
    /\ DailyIdle
    /\ ContractsIdle
    /\ LoadIdle
    /\ \E closes \in CloseLists(MaxPoints) \ {<<>>}, type \in OptionTypes :
        IF component = "PriceChart"
        THEN \E entryPrice \in EntryPrices :
                priceIn = [closes |-> closes, type |-> type, entryPrice |-> entryPrice]
        ELSE \E dayDiff \in DayDiffs :
                priceIn = [closes |-> closes, type |-> type, strike |-> PriceStrike,
                           dayDiff |-> dayDiff]
    /\ chartPoints = <<>>

\* DayAnalysis.loadDayData with chartMode 'option': marketData.map
DA_MapPoints ==
    /\ component = "DayAnalysis"
    /\ priceIn # NoInput
    /\ chartPoints' = DA_ChartPoints(priceIn)
    /\ UNCHANGED PriceFrame

\* TradingChart.loadDayData with viewMode 'option': marketHoursData.map
TC_MapPoints ==
    /\ component = "TradingChart"
    /\ priceIn # NoInput
    /\ chartPoints' = TC_ChartPoints(priceIn)
    /\ UNCHANGED PriceFrame

\* PriceChart.getChartData with viewMode 'option' or 'multi-day'
PC_GetChartData(mode) ==
    /\ component = "PriceChart"
    /\ priceIn # NoInput
    /\ chartPoints' = PC_ChartData(mode, priceIn)
    /\ UNCHANGED PriceFrame

PriceNext ==
    \/ DA_MapPoints
    \/ TC_MapPoints
    \/ \E mode \in {"option", "multi-day"} : PC_GetChartData(mode)

SpecPrice == PriceInit /\ [][PriceNext]_vars

\* C5: every synthetic option price point of every pricing path (DayAnalysis and
\* TradingChart in option mode, PriceChart in 'option' and 'multi-day' mode) has a
\* price of at least 0.01 $.
C5_PriceAtLeastFloor ==
    \A k \in DOMAIN chartPoints : chartPoints[k].price >= PriceFloor

\* DayAnalysis priced a 0DTE option far out of the money late in the day at the
\* floor, and another bar above it
C5_Witness ==
    /\ component = "DayAnalysis"
    /\ priceIn # NoInput
    /\ DA_DaysToExpiry(priceIn.dayDiff) = 0
    /\ \E k \in DOMAIN chartPoints :
        /\ chartPoints[k].price = PriceFloor
        /\ DA_TimeValue(priceIn.closes[k], priceIn.strike, 0, k - 1, Len(priceIn.closes))
             < PriceFloor
    /\ \E k \in DOMAIN chartPoints : chartPoints[k].price > PriceFloor

(***************************************************************************)
(* Text of a number.  A string is the sequence of its characters.          *)
(***************************************************************************)
DigitChars == <<"0", "1", "2", "3", "4", "5", "6", "7", "8", "9">>
IsDigit(ch) == \E d \in 1..10 : DigitChars[d] = ch
DigitValue(ch) == (CHOOSE d \in 1..10 : DigitChars[d] = ch) - 1

\* the longest prefix of s made of digits
RECURSIVE DigitPrefix(_)
DigitPrefix(s) ==
    IF s = <<>> \/ ~IsDigit(Head(s)) THEN <<>>
    ELSE <<Head(s)>> \o DigitPrefix(Tail(s))

RECURSIVE DecimalValue(_)
DecimalValue(ds) ==
    IF ds = <<>> THEN 0
    ELSE 10 * DecimalValue(SubSeq(ds, 1, Len(ds) - 1)) + DigitValue(ds[Len(ds)])

\* s.split(sep)
RECURSIVE Split(_, _)
Split(s, sep) ==
    IF \A k \in 1..Len(s) : s[k] # sep THEN <<s>>
    ELSE LET k == CHOOSE i \in 1..Len(s) : s[i] = sep /\ \A j \in 1..(i - 1) : s[j] # sep
         IN <<SubSeq(s, 1, k - 1)>> \o Split(SubSeq(s, k + 1, Len(s)), sep)

\* parseFloat of an unsigned decimal text, in hundredths (further digits dropped);
\* [nan |-> TRUE] where parseFloat finds no number
ParseFloat(s) ==
    LET whole == DigitPrefix(s)
        rest == SubSeq(s, Len(whole) + 1, Len(s))
        frac == IF rest # <<>> /\ Head(rest) = "." THEN DigitPrefix(Tail(rest)) ELSE <<>>
        cents == DecimalValue(SubSeq(frac \o <<"0", "0">>, 1, 2))
    IN IF whole = <<>> /\ frac = <<>> THEN [nan |-> TRUE, value |-> 0]
       ELSE [nan |-> FALSE, value |-> 100 * DecimalValue(whole) + cents]

(***************************************************************************)
(* The daily move scans: VolatilityFinder.scanForVolatileDays and          *)
(* VolatilityScanner.scanForVolatileDays.  Prices and move amounts are in  *)
(* cents, percentages of a filter in hundredths of a percent.              *)
(***************************************************************************)
DayDirection(day) == IF day.c > day.o THEN "UP" ELSE "DOWN"

VolatileDay_PercentOfClose(day) ==
    [date |-> day.t,
     movePercent |-> (Abs(day.c - day.o) * 1000000) \div day.c,
     moveAmount |-> Abs(day.c - day.o),
     direction |-> DayDirection(day),
     volume |-> day.v,
     openPrice |-> day.o,
     closePrice |-> day.c]

\* volatileDays.push({...}); movePercent in 1e-4 percent
VolatileDay(day) ==
    [date |-> day.t,
     movePercent |-> (Abs(day.c - day.o) * 1000000) \div day.o,
     moveAmount |-> Abs(day.c - day.o),
     direction |-> DayDirection(day),
     volume |-> day.v,
     openPrice |-> day.o,
     closePrice |-> day.c]

MeetsDirection(direction, day) ==
    \/ direction = "both"
    \/ direction = "up" /\ DayDirection(day) = "UP"
    \/ direction = "down" /\ DayDirection(day) = "DOWN"

\* movePercent >= p and movePercent <= p, for p in hundredths of a percent
MovePercentAtLeast(day, p) == Abs(day.c - day.o) * 10000 >= p * day.o
MovePercentAtMost(day, p) == Abs(day.c - day.o) * 10000 <= p * day.o

\* VolatilityFinder: meetsMinMove
VF_MeetsMinMove(f, day) ==
    \/ MovePercentAtLeast(day, f.minMovePercent)
    \/ Abs(day.c - day.o) >= f.minMoveAmount

\* VolatilityScanner: the range test on the parsed moveRange; a comparison with
\* NaN is false
VS_InRange_MaxExcluded(f, day) ==
    LET range == Split(f.moveRange, "-")
        minMove == IF Len(range) >= 1 THEN ParseFloat(range[1]) ELSE ParseFloat(<<>>)
        maxMove == IF Len(range) >= 2 THEN ParseFloat(range[2]) ELSE ParseFloat(<<>>)
    IN /\ ~minMove.nan /\ MovePercentAtLeast(day, minMove.value)
       /\ ~maxMove.nan /\ ~MovePercentAtLeast(day, maxMove.value)

VS_InRange(f, day) ==
    LET range == Split(f.moveRange, "-")
        minMove == IF Len(range) >= 1 THEN ParseFloat(range[1]) ELSE ParseFloat(<<>>)
        maxMove == IF Len(range) >= 2 THEN ParseFloat(range[2]) ELSE ParseFloat(<<>>)
    IN /\ ~minMove.nan /\ MovePercentAtLeast(day, minMove.value)
       /\ ~maxMove.nan /\ MovePercentAtMost(day, maxMove.value)

Qualifies(comp, f, day) ==
    IF comp = "VolatilityFinder"
    THEN VF_MeetsMinMove(f, day) /\ MeetsDirection(f.direction, day)
    ELSE VS_InRange(f, day) /\ MeetsDirection(f.direction, day)

\* data.results.forEach
RECURSIVE FindVolatileDays(_, _, _)
FindVolatileDays(comp, f, results) ==
    IF results = <<>> THEN <<>>
    ELSE LET day == Head(results)
             rest == FindVolatileDays(comp, f, Tail(results))
         IN IF Qualifies(comp, f, day) THEN <<VolatileDay(day)>> \o rest ELSE rest

\* b.movePercent - a.movePercent <= 0
MoveNotBelow(a, b) == a.moveAmount * b.openPrice >= b.moveAmount * a.openPrice

\* volatileDays.sort((a, b) => b.movePercent - a.movePercent): a stable sort
RECURSIVE InsertByMove(_, _)
InsertByMove(sorted, v) ==
    IF sorted = <<>> THEN <<v>>
    ELSE LET last == sorted[Len(sorted)]
         IN IF MoveNotBelow(last, v)
            THEN Append(sorted, v)
            ELSE Append(InsertByMove(SubSeq(sorted, 1, Len(sorted) - 1), v), last)

RECURSIVE SortByMove(_)
SortByMove(vs) ==
    IF vs = <<>> THEN <<>>
    ELSE InsertByMove(SortByMove(SubSeq(vs, 1, Len(vs) - 1)), vs[Len(vs)])

scanForVolatileDays(comp, f, results) == SortByMove(FindVolatileDays(comp, f, results))

(***************************************************************************)
(* The daily scan specification.  The service holds up to MaxDaily daily   *)
(* bars, each one of DayKinds; the day of a bar stands for its timestamp.  *)
(* The selects offer more options than the model exercises.                *)
(***************************************************************************)
DayKinds == { <<10000, 10020>>, <<10000, 10050>>, <<10000, 10200>>, <<50000, 49500>>,
              <<10000, 10000>> }
DayVolume == 1000 * 1000

RECURSIVE DailyLists(_)
DailyLists(n) ==
    IF n = 0 THEN {<<>>}
    ELSE DailyLists(n - 1) \cup
         { Append(l, [t |-> n, o |-> k[1], c |-> k[2], v |-> DayVolume]) :
             l \in { m \in DailyLists(n - 1) : Len(m) = n - 1 }, k \in DayKinds }

Directions == {"both", "up", "down"}
VF_PercentOptions == {200, 500}
VF_AmountOptions == {500, 2000}
VS_DefaultRange == <<"0", ".", "1", "0", "-", "0", ".", "5", "0">>
VS_RangeOptions == { <<"0", ".", "0", "5", "-", "0", ".", "2", "0">>,
                     VS_DefaultRange,
                     <<"2", ".", "0", "0", "-", "5", ".", "0", "0">> }

VF_DefaultFilters == [minMovePercent |-> 200, minMoveAmount |-> 500, direction |-> "both"]
VS_DefaultFilters == [moveRange |-> VS_DefaultRange, direction |-> "both"]

DailyFrame == <<component, scanVars, navVars, priceVars, contractVars, loadVars, dailyData>>

DailyInit ==
    /\ component \in {"VolatilityFinder", "VolatilityScanner"}
    /\ nyOffset = -300
    /\ serverData = <<>>
    /\ ScanIdle
    /\ NavIdle
    /\ PriceIdle
    /\ ContractsIdle
    /\ LoadIdle
    /\ dailyData \in DailyLists(MaxDaily)
    /\ dayFilters = IF component = "VolatilityFinder" THEN VF_DefaultFilters
                    ELSE VS_DefaultFilters
    /\ dayScan = NoRequest
    /\ scanResults = <<>>
    /\ dayRun = NoRun

\* VolatilityFinder: the three filter selects
VF_SetFilters ==
    /\ component = "VolatilityFinder"
    /\ \/ \E p \in VF_PercentOptions : dayFilters' = [dayFilters EXCEPT !.minMovePercent = p]
       \/ \E a \in VF_AmountOptions : dayFilters' = [dayFilters EXCEPT !.minMoveAmount = a]
       \/ \E dir \in Directions : dayFilters' = [dayFilters EXCEPT !.direction = dir]
    /\ dayFilters' # dayFilters
    /\ UNCHANGED <<DailyFrame, dayScan, scanResults, dayRun>>

\* VolatilityScanner: the two filter selects
VS_SetFilters ==
    /\ component = "VolatilityScanner"
    /\ \/ \E r \in VS_RangeOptions : dayFilters' = [dayFilters EXCEPT !.moveRange = r]
       \/ \E dir \in Directions : dayFilters' = [dayFilters EXCEPT !.direction = dir]
    /\ dayFilters' # dayFilters
    /\ UNCHANGED <<DailyFrame, dayScan, scanResults, dayRun>>

\* scanForVolatileDays up to its await (the button is disabled while scanning)
StartDayScan ==
    /\ ~dayScan.active
    /\ dayScan' = [active |-> TRUE, filters |-> dayFilters]
    /\ scanResults' = <<>>
    /\ dayRun' = NoRun
    /\ UNCHANGED <<DailyFrame, dayFilters>>

\* scanForVolatileDays from the response on: it throws on a status that is neither
\* OK nor DELAYED and on an empty result list
DayScan_Accepts(data) ==
    /\ ~(data.status # "OK" /\ data.status # "DELAYED")
    /\ ~(data.missing \/ Len(data.results) = 0)

DayScanResponse(data) ==
    /\ dayScan.active
    /\ IF ~DayScan_Accepts(data)
       THEN UNCHANGED <<scanResults, dayRun>>
       ELSE /\ scanResults' = scanForVolatileDays(component, dayScan.filters, data.results)
            /\ dayRun' = [ran |-> TRUE, filters |-> dayScan.filters]
    /\ dayScan' = NoRequest
    /\ UNCHANGED <<component, scanVars, navVars, priceVars, contractVars, dailyData,
                   dayFilters>>

FinishDayScan ==
    /\ \E data \in Responses(dailyData) : DayScanResponse(data)
    /\ UNCHANGED loadVars

VF_Scan == component = "VolatilityFinder" /\ StartDayScan
VF_ScanDone == component = "VolatilityFinder" /\ FinishDayScan
VS_Scan == component = "VolatilityScanner" /\ StartDayScan
VS_ScanDone == component = "VolatilityScanner" /\ FinishDayScan

DailyNext ==
    \/ VF_SetFilters
    \/ VF_Scan
    \/ VF_ScanDone
    \/ VS_SetFilters
    \/ VS_Scan
    \/ VS_ScanDone

SpecDaily == DailyInit /\ [][DailyNext]_vars

(***************************************************************************)
(* Properties of the daily scans.                                          *)
(***************************************************************************)
\* the bounds of the move ranges, in hundredths of a percent
RangeBounds(moveRange) ==
    IF moveRange = <<"0", ".", "0", "5", "-", "0", ".", "2", "0">> THEN <<5, 20>>
    ELSE IF moveRange = <<"0", ".", "1", "0", "-", "0", ".", "5", "0">> THEN <<10, 50>>
    ELSE <<200, 500>>

\* the direction filter and the magnitude filter of the mode, on a day as returned
DirectionOk(f, r) ==
    /\ f.direction = "up" => r.direction = "UP"
    /\ f.direction = "down" => r.direction = "DOWN"

MagnitudeOk(f, r) ==
    IF component = "VolatilityFinder"
    THEN \/ r.moveAmount * 10000 >= f.minMovePercent * r.openPrice
         \/ r.moveAmount >= f.minMoveAmount
    ELSE /\ RangeBounds(f.moveRange)[1] * r.openPrice <= r.moveAmount * 10000
         /\ r.moveAmount * 10000 <= RangeBounds(f.moveRange)[2] * r.openPrice

\* the input day as the scan would return it
AsReturned(day) ==
    [date |-> day.t, moveAmount |-> Abs(day.c - day.o), openPrice |-> day.o,
     direction |-> IF day.c > day.o THEN "UP" ELSE "DOWN"]

Satisfying(f) ==
    { k \in 1..Len(dailyData) :
        DirectionOk(f, AsReturned(dailyData[k])) /\ MagnitudeOk(f, AsReturned(dailyData[k])) }

\* C6: the result of a daily scan is sorted non-increasing by movePercent; every
\* returned day satisfies the direction filter and the magnitude filter of its mode
\* (VolatilityFinder: movePercent >= minMovePercent or moveAmount >= minMoveAmount;
\* VolatilityScanner: lo <= movePercent <= hi); every input day that satisfies both
\* is returned, once.
C6_DailyScanResult ==
    dayRun.ran =>
        /\ \A k \in 1..(Len(scanResults) - 1) :
              scanResults[k].movePercent >= scanResults[k + 1].movePercent
        /\ \A k \in 1..Len(scanResults) :
              /\ DirectionOk(dayRun.filters, scanResults[k])
              /\ MagnitudeOk(dayRun.filters, scanResults[k])
        /\ \A d \in Satisfying(dayRun.filters) :
              \E k \in 1..Len(scanResults) : scanResults[k].date = d
        /\ Len(scanResults) = Cardinality(Satisfying(dayRun.filters))

\* a range scan for up days returned two days out of input order, one of them at
\* the upper end of the range, and left a day out
C6_Witness ==
    /\ component = "VolatilityScanner"
    /\ dayRun.ran
    /\ dayRun.filters.direction = "up"
    /\ Len(scanResults) = 2
    /\ Len(dailyData) = 3
    /\ scanResults[1].date > scanResults[2].date
    /\ scanResults[1].moveAmount * 10000
         = RangeBounds(dayRun.filters.moveRange)[2] * scanResults[1].openPrice

(***************************************************************************)
(* The contracts inputs of App, AdvancedScanner and DayAnalysis: a number  *)
(* input whose onChange stores Math.max(1, parseInt(e.target.value) || 1). *)
(* The value of a number input is the text typed when that is a valid      *)
(* floating-point number, and the empty string otherwise.                  *)
(***************************************************************************)
IsValidFloat(s) ==
    LET body == IF s # <<>> /\ Head(s) = "-" THEN Tail(s) ELSE s
        whole == DigitPrefix(body)
        afterWhole == SubSeq(body, Len(whole) + 1, Len(body))
        hasPoint == afterWhole # <<>> /\ Head(afterWhole) = "."
        frac == IF hasPoint THEN DigitPrefix(Tail(afterWhole)) ELSE <<>>
        afterFrac == IF hasPoint
                     THEN SubSeq(afterWhole, Len(frac) + 2, Len(afterWhole))
                     ELSE afterWhole
        exponent == IF afterFrac = <<>> THEN <<>> ELSE Tail(afterFrac)
        expDigits == IF exponent # <<>> /\ Head(exponent) \in {"-", "+"}
                     THEN Tail(exponent) ELSE exponent
    IN /\ IF hasPoint THEN frac # <<>> ELSE whole # <<>>
       /\ \/ afterFrac = <<>>
          \/ /\ Head(afterFrac) \in {"e", "E"}
             /\ expDigits # <<>>
             /\ DigitPrefix(expDigits) = expDigits

\* e.target.value of the number input
InputValue(text) == IF IsValidFloat(text) THEN text ELSE <<>>

ParseInt_WholeTextOnly(s) ==
    LET signed == s # <<>> /\ Head(s) \in {"-", "+"}
        body == IF signed THEN Tail(s) ELSE s
    IN IF body = <<>> \/ DigitPrefix(body) # body THEN [nan |-> TRUE, value |-> 0]
       ELSE [nan |-> FALSE,
             value |-> IF signed /\ Head(s) = "-" THEN 0 - DecimalValue(body)
                       ELSE DecimalValue(body)]

\* parseInt(s): an optional sign and the digits that follow; NaN without a digit
ParseInt(s) ==
    LET signed == s # <<>> /\ Head(s) \in {"-", "+"}
        digits == DigitPrefix(IF signed THEN Tail(s) ELSE s)
    IN IF digits = <<>> THEN [nan |-> TRUE, value |-> 0]
       ELSE [nan |-> FALSE,
             value |-> IF signed /\ Head(s) = "-" THEN 0 - DecimalValue(digits)
                       ELSE DecimalValue(digits)]

ClampContracts_NoMax(n) == IF n.nan \/ n.value = 0 THEN 1 ELSE n.value

\* Math.max(1, n || 1)
ClampContracts(n) == Max(1, IF n.nan \/ n.value = 0 THEN 1 ELSE n.value)

TextChars == {"0", "5", "7", "-", "."}

RECURSIVE Texts(_)
Texts(n) ==
    IF n = 0 THEN {<<>>}
    ELSE Texts(n - 1) \cup
         { Append(t, ch) : t \in { u \in Texts(n - 1) : Len(u) = n - 1 }, ch \in TextChars }

ContractsFrame == <<component, scanVars, navVars, priceVars, dailyVars, loadVars>>

(***************************************************************************)
(* App after a Find Patterns run.  The sessions are flat at 100.00 but for *)
(* three bars from index WarmUp on, and just long enough for the entries   *)
(* at WarmUp and WarmUp + 1 to be scanned.  Their patterns are a CALL from *)
(* below the strike and a PUT from above it, each held one minute, and two *)
(* CALLs that end 0.02 in the money after two minutes and after one.       *)
(***************************************************************************)
EconCloses == { <<9951, 10060, 10000>>, <<9951, 9951, 10002>> }
EconLen == WarmUp + AppMaxHold + 2

EconSession(closes) ==
    GenData(EconLen,
            [k \in VarWindow |->
                IF k - WarmUp < Len(closes)
                THEN [close |-> closes[k - WarmUp + 1], volume |-> 2000]
                ELSE FlatBar],
            -1, -300)

EconSessions == { EconSession(closes) : closes \in EconCloses }

\* the state Find Patterns leaves when the service answered with the session
AppScanned(session) ==
    /\ nyOffset = -300
    /\ serverData = session
    /\ filters = [minMove |-> DefaultMinMove, maxHoldTime |-> DefaultMaxHold,
                  minVolume |-> DefaultMinVolume]
    /\ isLoading = FALSE
    /\ pending = NoRequest
    /\ stockData = AppMarketHoursData(session, nyOffset)
    /\ patterns = AppFindPatterns(stockData)
    /\ scanRun = [ran |-> TRUE, maxHold |-> AppMaxHold, minMove |-> AppMinMove,
                  minVolume |-> 0]

\* App draws its input once a pattern of the list is selected, DayAnalysis once an
\* option is selected
ContractsInit ==
    /\ component \in {"App", "AdvancedScanner", "DayAnalysis"}
    /\ IF component = "App"
       THEN \E session \in EconSessions : AppScanned(session)
       ELSE nyOffset = -300 /\ serverData = <<>> /\ ScanIdle
    /\ IF component = "DayAnalysis"
       THEN /\ tzOffset = 0
            /\ selectedDate \in SelectedDates
            /\ selectedOption = [type |-> "CALL", strike |-> 100, expiryDate |-> selectedDate]
            /\ viewingDate = selectedDate
            /\ currentDate = NoDate
            /\ currentViewDate = NoDate
            /\ chartMode = "stock"
            /\ viewMode = "stock"
            /\ chartData = EmptyChart
            /\ multiDayData = EmptyChart
            /\ loading = FALSE
            /\ fetches = EmptyBag
            /\ lastNav = NoNav
       ELSE NavIdle
    /\ PriceIdle
    /\ DailyIdle
    /\ LoadIdle
    /\ contracts = 1
    /\ lastEdit = NoEdit
    /\ selectedPattern = IF component = "App" THEN patterns[1] ELSE NoPattern

\* onChange of a contracts input
ContractsOnChange(text) ==
    /\ contracts' = ClampContracts(ParseInt(InputValue(text)))
    /\ lastEdit' = [edited |-> TRUE, text |-> text]
    /\ UNCHANGED <<ContractsFrame, selectedPattern>>

App_SetContractsCount ==
    /\ component = "App"
    /\ stockData # <<>>
    /\ patterns # <<>>
    /\ selectedPattern # NoPattern
    /\ \E text \in Texts(MaxText) : ContractsOnChange(text)

AS_SetContracts ==
    /\ component = "AdvancedScanner"
    /\ \E text \in Texts(MaxText) : ContractsOnChange(text)

DA_SetContracts ==
    /\ component = "DayAnalysis"
    /\ selectedOption # NoOption
    /\ \E text \in Texts(MaxText) : ContractsOnChange(text)

ContractsNext ==
    \/ App_SetContractsCount
    \/ AS_SetContracts
    \/ DA_SetContracts

SpecContracts == ContractsInit /\ [][ContractsNext]_vars

\* the texts the claim names: empty, not starting with a digit (a negative number,
\* an unparsable text), or zero
ZeroNegativeOrUnparsable(text) ==
    \/ text = <<>>
    \/ ~IsDigit(Head(text))
    \/ \A k \in 1..Len(text) : text[k] = "0"

\* C10: the contracts count is an integer >= 1 in every state; an edit to 0, to a
\* negative number such as -5, or to an empty or unparsable text leaves it at 1.
C10_ContractsAtLeastOne ==
    /\ contracts \in Nat
    /\ contracts >= 1
    /\ (lastEdit.edited /\ ZeroNegativeOrUnparsable(lastEdit.text)) => contracts = 1

\* the input was edited to -5
C10_Witness ==
    /\ lastEdit.edited
    /\ lastEdit.text = <<"-", "5">>
    /\ contracts = 1

\* a text with a decimal point, digits on both sides of it and a fraction that is
\* not zero: a number that is not an integer
NonIntegerText(text) ==
    \E k \in 2..(Len(text) - 1) :
        /\ text[k] = "."
        /\ \A j \in (1..Len(text)) \ {k} : IsDigit(text[j])
        /\ \E j \in (k + 1)..Len(text) : text[j] # "0"

\* the digits before the decimal point, as a number
WholePart(text) ==
    LET k == CHOOSE i \in 1..Len(text) : text[i] = "."
    IN DecimalValue(SubSeq(text, 1, k - 1))

EntryTimeValue == 50
TimeDecayPerMinute == 2
ExitTimeValueFloor == 5
SharesPerContract == 100
ListMax == 15

Dollars(cents) == cents \div 100

\* toFixed(0) of num / den: the nearest integer, a half away from zero
ToFixed0(num, den) ==
    IF num < 0 THEN 0 - ((2 * (0 - num) + den) \div (2 * den))
    ELSE (2 * num + den) \div (2 * den)

StrikePrice(pattern) == RoundDollars(pattern.entryPrice)

EntryIntrinsic(pattern) ==
    IF pattern.direction = "CALL"
    THEN Max(0, pattern.entryPrice - StrikePrice(pattern))
    ELSE Max(0, StrikePrice(pattern) - pattern.entryPrice)

EntryOptionPrice_NoTimeValue(pattern) == EntryIntrinsic(pattern)

EntryOptionPrice(pattern) == EntryIntrinsic(pattern) + EntryTimeValue

ExitIntrinsic(pattern) ==
    IF pattern.direction = "CALL"
    THEN Max(0, pattern.exitPrice - StrikePrice(pattern))
    ELSE Max(0, StrikePrice(pattern) - pattern.exitPrice)

ExitTimeValue(pattern) ==
    Max(ExitTimeValueFloor, EntryTimeValue - pattern.holdMinutes * TimeDecayPerMinute)

ExitOptionPrice(pattern) == ExitIntrinsic(pattern) + ExitTimeValue(pattern)

ProfitPerContract(pattern) ==
    Dollars((ExitOptionPrice(pattern) - EntryOptionPrice(pattern)) * SharesPerContract)

TotalCost(pattern, contractsCount) ==
    Dollars(EntryOptionPrice(pattern) * contractsCount * SharesPerContract)

TotalProfit_OneContract(pattern, contractsCount) == ProfitPerContract(pattern)

TotalProfit(pattern, contractsCount) == ProfitPerContract(pattern) * contractsCount

\* the percentage a row shows; the division of 0 by 0 shows NaN, a division of
\* another amount by 0 shows Infinity
PercentGain(pattern, contractsCount) ==
    LET totalCost == TotalCost(pattern, contractsCount)
        totalProfit == TotalProfit(pattern, contractsCount)
    IN IF totalCost = 0 THEN (IF totalProfit = 0 THEN "NaN" ELSE "Infinity")
       ELSE ToFixed0(totalProfit * 100, totalCost)

\* App: the three figures of the position panel, each computed inline
App_EntryOptionPrice(pattern) == EntryIntrinsic(pattern) + 50

App_ExitOptionPrice(pattern) ==
    ExitIntrinsic(pattern) + Max(5, 50 - pattern.holdMinutes * 2)

App_TotalCost(pattern, contractsCount) ==
    Dollars(App_EntryOptionPrice(pattern) * contractsCount * 100)

App_TotalProfit(pattern, contractsCount) ==
    LET profitPerContract ==
            Dollars((App_ExitOptionPrice(pattern) - App_EntryOptionPrice(pattern)) * 100)
    IN profitPerContract * contractsCount

App_PercentGain(pattern, contractsCount) ==
    LET totalCost == App_TotalCost(pattern, contractsCount)
        totalProfit == App_TotalProfit(pattern, contractsCount)
    IN IF totalCost = 0 THEN (IF totalProfit = 0 THEN "NaN" ELSE "Infinity")
       ELSE ToFixed0(totalProfit * 100, totalCost)

\* SimplePatternList: the rows drawn
RECURSIVE SuccessfulPatterns(_)
SuccessfulPatterns(ps) ==
    IF ps = <<>> THEN <<>>
    ELSE IF Head(ps).success THEN <<Head(ps)>> \o SuccessfulPatterns(Tail(ps))
    ELSE SuccessfulPatterns(Tail(ps))

ListedPatterns(ps) ==
    SubSeq(SuccessfulPatterns(ps), 1, Min(ListMax, Len(SuccessfulPatterns(ps))))

\* a click on a row of the list: onPatternClick = setSelectedPattern
App_SelectPattern ==
    /\ component = "App"
    /\ stockData # <<>>
    /\ patterns # <<>>
    /\ \E k \in 1..Len(ListedPatterns(patterns)) :
        selectedPattern' = ListedPatterns(patterns)[k]
    /\ UNCHANGED <<ContractsFrame, contracts, lastEdit>>

EconInit ==
    /\ component = "App"
    /\ \E session \in EconSessions : AppScanned(session)
    /\ NavIdle
    /\ RestIdle

EconNext ==
    \/ App_SelectPattern
    \/ App_SetContractsCount

SpecEconomics == EconInit /\ [][EconNext]_vars

\* C12: for every row of the list and for the selected pattern, the total cost and
\* the total profit at the contracts count c are c times those of one contract,
\* which are entryOptionPrice * 100 and (exitOptionPrice - entryOptionPrice) * 100,
\* and the percent gain is the one of one contract.
C12_LinearInContracts ==
    /\ \A k \in 1..Len(ListedPatterns(patterns)) :
        LET p == ListedPatterns(patterns)[k]
        IN /\ TotalCost(p, contracts) = contracts * TotalCost(p, 1)
           /\ TotalProfit(p, contracts) = contracts * TotalProfit(p, 1)
           /\ 100 * TotalCost(p, 1) = EntryOptionPrice(p) * 100
           /\ 100 * TotalProfit(p, 1) = (ExitOptionPrice(p) - EntryOptionPrice(p)) * 100
           /\ TotalProfit(p, contracts) * TotalCost(p, 1)
                = TotalProfit(p, 1) * TotalCost(p, contracts)
           /\ PercentGain(p, contracts) = PercentGain(p, 1)
    /\ selectedPattern # NoPattern =>
        LET p == selectedPattern
        IN /\ App_TotalCost(p, contracts) = contracts * App_TotalCost(p, 1)
           /\ App_TotalProfit(p, contracts) = contracts * App_TotalProfit(p, 1)
           /\ 100 * App_TotalCost(p, 1) = App_EntryOptionPrice(p) * 100
           /\ 100 * App_TotalProfit(p, 1)
                = (App_ExitOptionPrice(p) - App_EntryOptionPrice(p)) * 100
           /\ App_TotalProfit(p, contracts) * App_TotalCost(p, 1)
                = App_TotalProfit(p, 1) * App_TotalCost(p, contracts)
           /\ App_PercentGain(p, contracts) = App_PercentGain(p, 1)

\* a PUT bought 0.40 in the money is selected and the count was set to 57
C12_Witness ==
    /\ selectedPattern # NoPattern
    /\ selectedPattern.direction = "PUT"
    /\ EntryIntrinsic(selectedPattern) = 40
    /\ lastEdit.edited
    /\ contracts = 57
    /\ TotalProfit(selectedPattern, contracts) > TotalProfit(selectedPattern, 1)

\* C13: for every row of the list and for the selected pattern, at every contracts
\* count reached, the entry option price is at least 0.50 and the total cost is
\* above zero, so that the percent gain is a number.
C13_CostPositive ==
    /\ \A k \in 1..Len(ListedPatterns(patterns)) :
        LET p == ListedPatterns(patterns)[k]
        IN /\ EntryOptionPrice(p) >= 50
           /\ TotalCost(p, contracts) > 0
           /\ PercentGain(p, contracts) \in Int
    /\ selectedPattern # NoPattern =>
        /\ App_EntryOptionPrice(selectedPattern) >= 50
        /\ App_TotalCost(selectedPattern, contracts) > 0
        /\ App_PercentGain(selectedPattern, contracts) \in Int

\* a CALL bought out of the money, at 0.50 exactly, is selected, and the count is
\* the 1 that an edit to 0 leaves
C13_Witness ==
    /\ selectedPattern # NoPattern
    /\ EntryIntrinsic(selectedPattern) = 0
    /\ EntryOptionPrice(selectedPattern) = 50
    /\ lastEdit.edited
    /\ lastEdit.text = <<"0">>
    /\ contracts = 1

(***************************************************************************)
(* AdvancedScanner.scanOptionsForDay.  Closes are in cents, profits in     *)
(* cents, option prices in 1e-4 dollars, profitPercent in hundredths of a  *)
(* percent.                                                                *)
(***************************************************************************)
AS_Margin == 30
AS_MaxHold == 60
AS_Leverage == 15
AS_TopCount == 20

AS_Opportunity(data, day, i, j, type) ==
    LET entry == Bar(data, i)
        exit == Bar(data, j)
        stockMove == exit.close - entry.close
        profit == Abs(stockMove) * AS_Leverage
    IN [strike |-> RoundDollars(day.openPrice),
        type |-> type,
        entryPrice |-> 5000,
        exitPrice |-> 5000 + Abs(stockMove) * AS_Leverage,
        entryTime |-> entry.t,
        exitTime |-> exit.t,
        profit |-> profit,
        profitPercent |-> profit * 2,
        holdMinutes |-> j - i]

AS_CallProfit(data, day, i, j) ==
    LET stockMove == Bar(data, j).close - Bar(data, i).close
    IN IF day.direction = "UP" /\ stockMove > 5 THEN stockMove * AS_Leverage ELSE 0

AS_PutProfit(data, day, i, j) ==
    LET stockMove == Bar(data, j).close - Bar(data, i).close
    IN IF day.direction = "DOWN" /\ stockMove < -5 THEN Abs(stockMove) * AS_Leverage ELSE 0

\* the pairs <<i, j>> the two loops visit, and those that push an opportunity; a
\* pair pushes at most one, the day being UP or DOWN
AS_Visited(data) ==
    { pr \in (AS_Margin..(Len(data) - AS_Margin - 1)) \X (1..(Len(data) - 1)) :
        pr[2] > pr[1] /\ pr[2] <= Min(pr[1] + AS_MaxHold, Len(data) - 1) }

AS_Pushed(data, day) ==
    { pr \in AS_Visited(data) :
        \/ AS_CallProfit(data, day, pr[1], pr[2]) > 1000
        \/ AS_PutProfit(data, day, pr[1], pr[2]) > 1000 }

\* the opportunities in the order the loops push them
AS_ScanFrom(data, day) ==
    LET pushed == AS_Pushed(data, day)
        before(pr, qr) == pr[1] < qr[1] \/ (pr[1] = qr[1] /\ pr[2] < qr[2])
        nth(n) == CHOOSE pr \in pushed :
                      Cardinality({ qr \in pushed : before(qr, pr) }) = n - 1
    IN [n \in 1..Cardinality(pushed) |->
            AS_Opportunity(data, day, nth(n)[1], nth(n)[2],
                IF AS_CallProfit(data, day, nth(n)[1], nth(n)[2]) > 1000
                THEN "CALL" ELSE "PUT")]

\* sort((a, b) => b.profit - a.profit)
RECURSIVE AS_InsertByProfit(_, _)
AS_InsertByProfit(sorted, o) ==
    IF sorted = <<>> THEN <<o>>
    ELSE LET last == sorted[Len(sorted)]
         IN IF last.profit >= o.profit THEN Append(sorted, o)
            ELSE Append(AS_InsertByProfit(SubSeq(sorted, 1, Len(sorted) - 1), o), last)

RECURSIVE AS_SortByProfit(_)
AS_SortByProfit(os) ==
    IF os = <<>> THEN <<>>
    ELSE AS_InsertByProfit(AS_SortByProfit(SubSeq(os, 1, Len(os) - 1)), os[Len(os)])

AS_Opportunities(data, day) ==
    LET sorted == AS_SortByProfit(AS_ScanFrom(data, day))
    IN SubSeq(sorted, 1, Min(AS_TopCount, Len(sorted)))

\* the one test of the response: data.status === 'OK' && data.results
AS_Accepts(data) == data.status = "OK" /\ ~data.missing

(***************************************************************************)
(* The loads of App, VolatilityFinder and AdvancedScanner with the         *)
(* response each handled on record.  The minute sessions of the scanner    *)
(* are flat at 100.00 but for one bar, a dollar above or below, which the  *)
(* two entries scanned can exit at.                                        *)
(***************************************************************************)
AS_Len == 2 * AS_Margin + 2
AS_Session(close) ==
    [k \in 1..AS_Len |->
        [t |-> SessionOpen + 300 + k - 1,
         close |-> IF k = AS_Margin + 10 THEN close ELSE 10000,
         volume |-> 2000]]
AS_Sessions == { AS_Session(10100), AS_Session(9900) }
AS_Days == { VolatileDay([t |-> 8, o |-> 10000, c |-> 10200, v |-> DayVolume]),
             VolatileDay([t |-> 8, o |-> 10000, c |-> 9800, v |-> DayVolume]) }
LoadDailyLists == { l \in DailyLists(1) : l = <<>> \/ l[1].c = 10200 }

Handled(data, taken) ==
    [handled |-> TRUE, status |-> data.status, missing |-> data.missing,
     empty |-> (Len(data.results) = 0), taken |-> taken]

LoadInit ==
    /\ component \in {"App", "VolatilityFinder", "AdvancedScanner"}
    /\ nyOffset = -300
    /\ serverData \in (CASE component = "App" -> {<<>>} \cup EconSessions
                         [] component = "AdvancedScanner" -> {<<>>} \cup AS_Sessions
                         [] OTHER -> {<<>>})
    /\ ScanIdle
    /\ NavIdle
    /\ PriceIdle
    /\ dailyData \in (IF component = "VolatilityFinder" THEN LoadDailyLists ELSE {<<>>})
    /\ dayFilters = VF_DefaultFilters
    /\ dayScan = NoRequest
    /\ scanResults = <<>>
    /\ dayRun = NoRun
    /\ ContractsIdle
    /\ LoadIdle

\* App: Find Patterns from the response on
App_LoadDone ==
    /\ \E data \in Responses(serverData) :
        /\ FindPatternsResponse(data)
        /\ lastResponse' = Handled(data, App_Accepts(data))
    /\ UNCHANGED <<priceVars, dailyVars, contractVars, selectedDay, opportunities,
                   scanning, scanFetches>>

\* VolatilityFinder.scanForVolatileDays from the response on
VF_LoadDone ==
    /\ component = "VolatilityFinder"
    /\ \E data \in Responses(dailyData) :
        /\ DayScanResponse(data)
        /\ lastResponse' = Handled(data, DayScan_Accepts(data))
    /\ UNCHANGED <<selectedDay, opportunities, scanning, scanFetches>>

\* AdvancedScanner.scanOptionsForDay up to its await, selectedDay being day
AS_StartScan(day) ==
    /\ BagCardinality(scanFetches) < MaxFetches
    /\ scanning' = TRUE
    /\ scanFetches' = scanFetches (+) SetToBag({[selectedDay |-> day]})
    /\ UNCHANGED <<component, scanVars, navVars, priceVars, dailyVars, contractVars,
                   opportunities, lastResponse>>

\* the effect on a new selectedDay
AS_SelectedDayEffect ==
    /\ component = "AdvancedScanner"
    /\ \E day \in AS_Days :
        /\ day # selectedDay
        /\ selectedDay' = day
        /\ AS_StartScan(day)

\* the Scan button, disabled while scanning
AS_ScanOptionsForDay ==
    /\ component = "AdvancedScanner"
    /\ ~scanning
    /\ selectedDay # NoDay
    /\ AS_StartScan(selectedDay)
    /\ UNCHANGED selectedDay

\* AdvancedScanner.scanOptionsForDay from the response on
AS_ScanDone ==
    /\ component = "AdvancedScanner"
    /\ \E r \in BagToSet(scanFetches), data \in Responses(serverData) :
        /\ scanFetches' = scanFetches (-) SetToBag({r})
        /\ IF AS_Accepts(data)
           THEN opportunities' = AS_Opportunities(data.results, r.selectedDay)
           ELSE UNCHANGED opportunities
        /\ lastResponse' = Handled(data, AS_Accepts(data))
    /\ scanning' = FALSE
    /\ UNCHANGED <<component, scanVars, navVars, priceVars, dailyVars, contractVars,
                   selectedDay>>

LoadNext ==
    \/ FindPatterns
    \/ App_LoadDone
    \/ VF_Scan
    \/ VF_LoadDone
    \/ AS_SelectedDayEffect
    \/ AS_ScanOptionsForDay
    \/ AS_ScanDone

SpecLoad == LoadInit /\ [][LoadNext]_vars

\* C14: a load takes a response, and processes its results, exactly when the status
\* is OK or DELAYED and the results are a list that is not empty.
C14_OkAndDelayedSucceed ==
    lastResponse.handled =>
        (lastResponse.taken <=>
            /\ lastResponse.status \in {"OK", "DELAYED"}
            /\ ~lastResponse.missing
            /\ ~lastResponse.empty)

(***************************************************************************)
(* The scan of PatternAnalyzer on a session that steps up by 0.12.         *)
(***************************************************************************)
\* PatternAnalyzer has scanned, with minStockMove = 0.10, a session long enough for
\* the entry at index first to be visited
ScannedFrom(first) ==
    /\ component = "PatternAnalyzer"
    /\ scanRun.ran
    /\ scanRun.minMove = 10
    /\ first < Len(stockData) - scanRun.maxHold

\* the closes are 100.00 from index 0 to index last and 100.12 at the next index
StepsUpAfter(last) ==
    /\ Len(stockData) > last + 1
    /\ \A k \in 0..last : Bar(stockData, k).close = 10000
    /\ Bar(stockData, last + 1).close = 10012

\* the result holds the pattern that enters at index i and leaves one bar later,
\* a CALL with a stock move of 0.12
HasStepPattern(i) ==
    \E n \in 1..Len(patterns) :
        /\ patterns[n].time = Bar(stockData, i).t
        /\ patterns[n].entryPrice = Bar(stockData, i).close
        /\ patterns[n].exitPrice = Bar(stockData, i + 1).close
        /\ patterns[n].holdMinutes = 1
        /\ patterns[n].direction = "CALL"
        /\ patterns[n].stockMove = 12

\* C15 as stated: with closes of 100.00 at indices 0..4 and 100.12 at index 5, the
\* result holds a pattern that enters at index 4 and leaves at index 5, held one
\* minute, a CALL with a stock move of 0.12.
C15_EntryAtIndexFour ==
    (ScannedFrom(WarmUp) /\ StepsUpAfter(4)) => HasStepPattern(4)

\* C15 as the code has it: no pattern enters at an index below 5, so that session
\* gives no pattern that enters at index 4; with closes of 100.00 at indices 0..5
\* and 100.12 at index 6, and the volume of the bar at index 5 not below the
\* minimum, the result holds the pattern that enters at index 5 and leaves at
\* index 6, held one minute, a CALL with a stock move of 0.12.
C15_EntryAtIndexFive ==
    /\ (ScannedFrom(WarmUp) /\ StepsUpAfter(4)) =>
            \A n \in 1..Len(patterns) : patterns[n].time >= Bar(stockData, WarmUp).t
    /\ (ScannedFrom(WarmUp) /\ StepsUpAfter(WarmUp)
            /\ Bar(stockData, WarmUp).volume >= scanRun.minVolume) => HasStepPattern(WarmUp)

\* a session that steps up at index 6 was scanned and gave the pattern from index 5
C15_Witness ==
    /\ ScannedFrom(WarmUp)
    /\ StepsUpAfter(WarmUp)
    /\ HasStepPattern(WarmUp)

(***************************************************************************)
(* The order of the pattern list.                                          *)
(***************************************************************************)
\* the patterns the loops of the last run pushed, in the order they pushed them
Recorded ==
    IF component = "PatternAnalyzer"
    THEN ScanFrom(stockData,
                  [minMove |-> scanRun.minMove, maxHoldTime |-> scanRun.maxHold,
                   minVolume |-> scanRun.minVolume],
                  WarmUp, <<>>)
    ELSE AppScanFrom(stockData, WarmUp, <<>>)

Occurrences(seq, x) == Cardinality({ n \in 1..Len(seq) : seq[n] = x })

\* the bars the scan of the last run read: the session bars of the response
SessionBars ==
    IF component = "PatternAnalyzer" THEN MarketHoursData(serverData, nyOffset)
    ELSE AppMarketHoursData(serverData, nyOffset)

\* C16: after a scan of PatternAnalyzer or App the pattern list is in non-increasing
\* order of estimatedProfit, holds each pattern the loops pushed as often as they
\* pushed it and no other, and the bars are the session bars of the response in
\* their order, ascending in time.
C16_SortedSamePatterns ==
    scanRun.ran =>
        LET recorded == Recorded
        IN /\ \A n \in 1..(Len(patterns) - 1) :
                  patterns[n].estimatedProfit >= patterns[n + 1].estimatedProfit
           /\ Len(patterns) = Len(recorded)
           /\ \A p \in { recorded[n] : n \in 1..Len(recorded) } :
                  Occurrences(patterns, p) = Occurrences(recorded, p)
           /\ stockData = SessionBars
           /\ \A k \in 1..(Len(stockData) - 1) : stockData[k].t < stockData[k + 1].t

\* the loops pushed a pattern of smaller profit before one of larger profit, and the
\* list has the larger first
C16_Witness ==
    /\ scanRun.ran
    /\ Len(Recorded) >= 2
    /\ Recorded[1].estimatedProfit < Recorded[2].estimatedProfit
    /\ patterns[1].estimatedProfit > Recorded[1].estimatedProfit

(***************************************************************************)
(* The time value of DayAnalysis on the day of expiry.                     *)
(***************************************************************************)
\* DayAnalysis has priced the bars of priceIn with no day left to the expiry
DA_PricedAtExpiry ==
    /\ component = "DayAnalysis"
    /\ chartPoints # <<>>
    /\ DA_DaysToExpiry(priceIn.dayDiff) = 0

\* the time value of the k-th bar priced
DA_TimeValueAt(k) ==
    DA_TimeValue(priceIn.closes[k], priceIn.strike, 0, k - 1, Len(priceIn.closes))

\* C17: on the day of expiry, of two bars of DayAnalysis with the same close the
\* later has no larger a time value (and no larger a price), and a bar at or past
\* the middle of the list has the decay factor 0.01.
C17_TimeValueDecays ==
    DA_PricedAtExpiry =>
        /\ \A k, m \in 1..Len(priceIn.closes) :
               (k < m /\ priceIn.closes[k] = priceIn.closes[m]) =>
                   /\ DA_TimeValueAt(k) >= DA_TimeValueAt(m)
                   /\ chartPoints[k].price >= chartPoints[m].price
        /\ \A k \in 1..Len(priceIn.closes) :
               2 * (k - 1) >= Len(priceIn.closes) =>
                   100 * DA_Decay(k - 1, Len(priceIn.closes)) = 100 * Len(priceIn.closes)

\* three bars at the strike priced on the day of expiry: the time value falls from
\* the first to the second, and the third, past the middle, is at the floor
C17_Witness ==
    /\ DA_PricedAtExpiry
    /\ priceIn.dayDiff = 0
    /\ priceIn.closes = <<PriceStrike, PriceStrike, PriceStrike>>
    /\ DA_TimeValueAt(1) > DA_TimeValueAt(2)
    /\ DA_TimeValueAt(2) > DA_TimeValueAt(3)
    /\ chartPoints[1].price > chartPoints[3].price

(***************************************************************************)
(* The fields of the days the daily scans report.                          *)
(***************************************************************************)
\* C18: every day VolatilityFinder or VolatilityScanner reports is a bar of the
\* response with moveAmount = |close - open|, movePercent = moveAmount / open * 100
\* of that bar's own open, and direction UP exactly when close > open, DOWN
\* otherwise; a bar with close = open counts as DOWN.
C18_MoveFromOwnOpen ==
    dayRun.ran =>
        /\ \A n \in 1..Len(scanResults) :
               LET r == scanResults[n]
               IN \E k \in 1..Len(dailyData) :
                      LET bar == dailyData[k]
                      IN /\ r.date = bar.t
                         /\ r.openPrice = bar.o
                         /\ r.closePrice = bar.c
                         /\ r.moveAmount = Abs(bar.c - bar.o)
                         /\ r.movePercent = (Abs(bar.c - bar.o) * 1000000) \div bar.o
                         /\ r.direction = (IF bar.c > bar.o THEN "UP" ELSE "DOWN")
        /\ \A k \in 1..Len(dailyData) :
               dailyData[k].c = dailyData[k].o =>
                   /\ DayDirection(dailyData[k]) = "DOWN"
                   /\ \A n \in 1..Len(scanResults) :
                          scanResults[n].date = dailyData[k].t =>
                              scanResults[n].direction = "DOWN"

\* a scan reported a day that opened away from the close of the day before, a move
\* of 1 % of its open, and the response held a flat day too
C18_Witness ==
    /\ dayRun.ran
    /\ \E k \in 1..Len(dailyData) : dailyData[k].c = dailyData[k].o
    /\ \E n \in 1..Len(scanResults) : \E k \in 2..Len(dailyData) :
          /\ scanResults[n].date = dailyData[k].t
          /\ dailyData[k - 1].c # dailyData[k].o
          /\ scanResults[n].direction = "DOWN"
          /\ scanResults[n].movePercent = 10000

(***************************************************************************)
(* The entry indices of the intraday scans.                                *)
(***************************************************************************)
\* the indices of the bars scanned whose time is that of pattern n
EntryIndices(n) ==
    { i \in 0..(Len(stockData) - 1) : Bar(stockData, i).t = patterns[n].time }

\* C19: after a scan of PatternAnalyzer or App every pattern enters at an index i
\* with 5 <= i < len - maxHold, and a list of at most maxHold + 5 bars gives no
\* pattern.
C19_EntryIndexRange ==
    scanRun.ran =>
        /\ \A n \in 1..Len(patterns) :
               /\ EntryIndices(n) # {}
               /\ \A i \in EntryIndices(n) :
                      5 <= i /\ i < Len(stockData) - scanRun.maxHold
        /\ Len(stockData) <= scanRun.maxHold + 5 => patterns = <<>>

\* a list of exactly maxHold + 5 bars with a move of 0.60 right after index 5 was
\* scanned and gave no pattern
C19_Witness ==
    /\ scanRun.ran
    /\ Len(stockData) = scanRun.maxHold + 5
    /\ Abs(Bar(stockData, 6).close - Bar(stockData, 5).close) = 60
    /\ Bar(stockData, 5).volume >= scanRun.minVolume
    /\ patterns = <<>>

(***************************************************************************)
(* The day buttons of TradingChart.                                        *)
(***************************************************************************)
\* the first day after d that is neither a Saturday nor a Sunday
NextWeekday(d) ==
    IF (d + 1) % 7 = 6 THEN d + 3
    ELSE IF (d + 1) % 7 = 0 THEN d + 2
    ELSE d + 1

\* C20: TradingChart.navigateDay(+1) from a weekday shows the next weekday (the next
\* calendar day, or the Monday after it when that is a Saturday or a Sunday), and
\* neither navigateDay(+1) nor navigateDay(-1) from a weekday shows a Saturday or a
\* Sunday.
C20_ForwardToNextWeekday ==
    [][ (component = "TradingChart" /\ lastNav'.op = "navigateDay"
            /\ ~IsWeekendDate(currentDate)) =>
          /\ ~IsWeekendDate(currentDate')
          /\ lastNav'.offset = 1 => currentDate' = NextWeekday(currentDate) ]_vars

(***************************************************************************)
(* The fields of a pattern of PatternAnalyzer, and the exit that App's     *)
(* inline scan accepts.                                                    *)
(***************************************************************************)
\* the multiplier of a move of movePercent (in 1e-4 percent)
LeverageStep(movePercent) ==
    IF movePercent < 1000 THEN 8
    ELSE IF movePercent < 2000 THEN 15
    ELSE IF movePercent < 5000 THEN 20
    ELSE 25

\* the percentages at and next to the edges of the tiers (in 1e-4 percent)
TierEdges == {0, 999, 1000, 1001, 1999, 2000, 2001, 4999, 5000, 5001}

\* the positions of the bars the pattern was made of: entry i, exit j
MadeOf(p) ==
    { <<i, i + p.holdMinutes>> :
        i \in { k \in 0..(Len(stockData) - 1 - p.holdMinutes) :
                  /\ Bar(stockData, k).t = p.time
                  /\ Bar(stockData, k).close = p.entryPrice
                  /\ Bar(stockData, k + p.holdMinutes).close = p.exitPrice } }

AppQualifying(i) ==
    { j \in (i + 1) .. Min(i + AppMaxHold, Len(stockData) - 1) :
        Abs(Bar(stockData, j).close - Bar(stockData, i).close) >= AppMinMove }

\* C22: after App's inline scan, every entry index i with 5 <= i < len - 15 that has
\* an exit j in i+1..min(i+15, len-1) with |close[j] - close[i]| >= 0.10 has one
\* pattern, and its holdMinutes is the smallest such j - i.
C22_AppEarliestExit ==
    (component = "App" /\ scanRun.ran) =>
        \A i \in WarmUp .. (Len(stockData) - AppMaxHold - 1) :
            AppQualifying(i) # {} =>
                /\ Cardinality(PatternsOf(i)) = 1
                /\ \A n \in PatternsOf(i) :
                       patterns[n].holdMinutes = MinOf({ j - i : j \in AppQualifying(i) })

(***************************************************************************)
(* The overlapping loads of DayAnalysis.                                   *)
(***************************************************************************)
\* what a load started now, by the current render of DayAnalysis, would compute
DA_CurrentView == LoadRequest(viewingDate, chartMode, selectedOption, viewingDate)

\* DayAnalysis shows a chart and awaits no fetch
DA_Settled == component = "DayAnalysis" /\ fetches = EmptyBag /\ chartData # EmptyChart

\* C23: in DayAnalysis a user action starts at most one fetch, and under every
\* completion order of the fetches, once no fetch is in flight the chart shown was
\* computed for the current viewingDate, chartMode and selectedOption (the response
\* of an older request never replaces the result of a newer one).
C23_ChartOfCurrentView ==
    [][ component = "DayAnalysis" =>
            /\ InFlight' <= InFlight + 1
            /\ DA_Settled' => chartData' = DA_CurrentView' ]_vars

(***************************************************************************)
(* The Previous button of TradingChart.                                    *)
(***************************************************************************)
\* C24: TradingChart.navigateDay(-1) from a weekday, a Monday included, shows a
\* weekday strictly earlier than the date before the call.
C24_BackwardMakesProgress ==
    [][ (component = "TradingChart" /\ lastNav'.op = "navigateDay"
            /\ lastNav'.offset = -1 /\ ~IsWeekendDate(currentDate)) =>
          /\ ~IsWeekendDate(currentDate')
          /\ currentDate' < currentDate ]_vars

(***************************************************************************)
(* App: scans and pattern clicks in any order.  The ticker select and the  *)
(* date input change the request of the next Find Patterns, and with it    *)
(* the bars the service answers with.                                      *)
(***************************************************************************)
\* the ticker select and the date input, between two scans
App_SetSelectedDate ==
    /\ component = "App"
    /\ ~pending.active
    /\ serverData' \in ({<<>>} \cup EconSessions) \ {serverData}
    /\ UNCHANGED <<component, nyOffset, filters, isLoading, pending, stockData, patterns,
                   scanRun, navVars, restVars>>

SelectInit ==
    /\ component = "App"
    /\ nyOffset = -300
    /\ serverData \in {<<>>} \cup EconSessions
    /\ ScanIdle
    /\ NavIdle
    /\ RestIdle

SelectNext ==
    \/ App_SetSelectedDate
    \/ FindPatterns
    \/ FindPatternsDone
    \/ App_SelectPattern
    \/ App_SetContractsCount

SpecSelect == SelectInit /\ [][SelectNext]_vars

\* the position panel is drawn: bars, patterns and a selected pattern
App_PanelShown == stockData # <<>> /\ patterns # <<>> /\ selectedPattern # NoPattern

\* C25: in App, after any sequence of Find Patterns scans and pattern clicks,
\* selectedPattern is null or an element of the current patterns list, so the
\* position panel is never computed from a pattern of an earlier scan.
C25_SelectedPatternCurrent ==
    component = "App" =>
        \/ selectedPattern = NoPattern
        \/ \E n \in 1..Len(patterns) : patterns[n] = selectedPattern

(***************************************************************************)
(* The multi-day view of PriceChart.                                       *)
(***************************************************************************)
\* PriceChart shows bars of another day and awaits no fetch
PC_Settled == component = "PriceChart" /\ fetches = EmptyBag /\ multiDayData # EmptyChart

\* C26: in the multi-day view of PriceChart, once loadDifferentDay has finished, the
\* bars of multiDayData are those of the day named by currentViewDate: a call whose
\* fetch fails, is answered with a status of failure or with no results leaves
\* currentViewDate and multiDayData as they were.
C26_BarsOfViewDate ==
    PC_Settled => multiDayData.date = currentViewDate

\* the days the four buttons lead to
PC_Targets == { selectedDate + dayOffset : dayOffset \in DayOffsets }

RangeKinds == {"contiguous", "missing", "overnight"}
RangeLens == { MinOf(MaxHoldOptions) + WarmUp + 1, MinOf(MaxHoldOptions) + WarmUp + 2 }

\* the New York minute, counted from 00:00 of the first day, of the n-th bar (from 0)
\* inside the sessions
SessionMinute(kind, n) ==
    CASE kind = "contiguous" -> MarketOpen + n
      [] kind = "missing" -> MarketOpen + n + (IF n > WarmUp THEN 1 ELSE 0)
      [] kind = "overnight" -> IF n <= WarmUp THEN MarketClose - 1 - WarmUp + n
                               ELSE DayMinutes + MarketOpen + (n - WarmUp - 1)

RangeData(kind, len, v, off) ==
    LET inSession == [k \in 1..len |->
                        LET b == IF (k - 1) \in VarWindow THEN v[k - 1] ELSE FlatBar
                        IN [t |-> SessionMinute(kind, k - 1) - off,
                            close |-> b.close, volume |-> b.volume]]
        between == << [t |-> MarketClose - off, close |-> FlatBar.close,
                       volume |-> FlatBar.volume],
                      [t |-> DayMinutes + MarketOpen - 1 - off, close |-> FlatBar.close,
                       volume |-> FlatBar.volume] >>
    IN IF kind = "overnight"
       THEN SubSeq(inSession, 1, WarmUp + 1) \o between \o SubSeq(inSession, WarmUp + 2, len)
       ELSE inSession

RangeInit ==
    /\ component = "PatternAnalyzer"
    /\ nyOffset = -300
    /\ \E kind \in RangeKinds, len \in RangeLens, v \in [VarWindow -> BarKinds] :
        serverData = RangeData(kind, len, v, nyOffset)
    /\ ScanIdle
    /\ NavIdle
    /\ RestIdle

RangeNext ==
    \/ SetMaxHoldTime
    \/ AnalyzePatterns
    \/ AnalyzePatternsDone

SpecRange == RangeInit /\ [][RangeNext]_vars

\* C27: for every pattern PatternAnalyzer.findProfitablePatterns returns over the
\* bars of loadHistoricalData, the entry bar and the exit bar are of the same
\* trading session and holdMinutes is the number of minutes between their
\* timestamps, also when the range spans several days or minute bars are missing.
C27_HoldIsElapsedTime ==
    (component = "PatternAnalyzer" /\ scanRun.ran) =>
        \A n \in 1..Len(patterns) :
            /\ MadeOf(patterns[n]) # {}
            /\ \A ij \in MadeOf(patterns[n]) :
                  LET entry == Bar(stockData, ij[1])
                      exit == Bar(stockData, ij[2])
                  IN /\ NYDay(entry.t, nyOffset) = NYDay(exit.t, nyOffset)
                     /\ patterns[n].holdMinutes = exit.t - entry.t

(***************************************************************************)
(* The days to expiry of the points of DayAnalysis.                        *)
(***************************************************************************)
\* C29: every option price point of DayAnalysis has daysToExpiry >= 0 and expired =
\* false; for a viewed date later than the expiry date daysToExpiry is 0 and the
\* point is priced as on the day of expiry.
C29_DaysToExpiryClamped ==
    (component = "DayAnalysis" /\ chartPoints # <<>>) =>
        /\ \A k \in DOMAIN chartPoints :
              /\ chartPoints[k].daysToExpiry >= 0
              /\ chartPoints[k].daysToExpiry = Max(0, priceIn.dayDiff)
              /\ chartPoints[k].expired = FALSE
        /\ priceIn.dayDiff < 0 =>
              /\ \A k \in DOMAIN chartPoints : chartPoints[k].daysToExpiry = 0
              /\ chartPoints = DA_ChartPoints([priceIn EXCEPT !.dayDiff = 0])

\* DayAnalysis priced a day after the expiry: the points are those of the day of
\* expiry, with a time value that decays over the day
C29_Witness ==
    /\ component = "DayAnalysis"
    /\ chartPoints # <<>>
    /\ priceIn.dayDiff < 0
    /\ Len(chartPoints) = MaxPoints
    /\ chartPoints[1].daysToExpiry = 0
    /\ ~chartPoints[1].expired
    /\ priceIn.closes[1] = priceIn.closes[2]
    /\ chartPoints[1].price > chartPoints[2].price

(***************************************************************************)
(* The loading flags.  The loads of App, VolatilityFinder, AdvancedScanner *)
(* and DayAnalysis, with every fetch that is awaited eventually settled:   *)
(* the promise of a fetch resolves or rejects, and the handler then runs   *)
(* to its end.  A fetch that rejects takes the catch and the finally of    *)
(* the handler, as a response with a status of failure does.               *)
(***************************************************************************)
\* the bars of a session that is too short to hold a pattern or an opportunity
LiveSession == GenData(2, [k \in VarWindow |-> FlatBar], -1, -300)

LiveInit ==
    \/ /\ component \in {"App", "VolatilityFinder", "AdvancedScanner"}
       /\ nyOffset = -300
       /\ serverData \in (IF component = "VolatilityFinder" THEN {<<>>}
                          ELSE {<<>>, LiveSession})
       /\ ScanIdle
       /\ NavIdle
       /\ PriceIdle
       /\ dailyData \in (IF component = "VolatilityFinder" THEN LoadDailyLists ELSE {<<>>})
       /\ dayFilters = VF_DefaultFilters
       /\ dayScan = NoRequest
       /\ scanResults = <<>>
       /\ dayRun = NoRun
       /\ ContractsIdle
       /\ LoadIdle
    \/ NavInit /\ component = "DayAnalysis"

\* DayAnalysis starts its loads from the mount effect, the selection of an option and
\* the mode buttons; from the Monday it is mounted on, the day buttons only reject.
\* The date input, which starts the same load through the effect on viewingDate, is
\* left out here.
LiveNext ==
    \/ LoadNext
    \/ DA_SelectOption
    \/ \E offset \in {-1, 1} : DA_NavigateDay(offset)
    \/ DA_SetChartMode
    \/ DA_LoadDone

SpecLive ==
    /\ LiveInit
    /\ [][LiveNext]_vars
    /\ WF_vars(App_LoadDone)
    /\ WF_vars(VF_LoadDone)
    /\ WF_vars(AS_ScanDone)
    /\ WF_vars(DA_LoadDone)

\* the loading flag of the component: isLoading, isScanning, scanning, loading
Busy ==
    CASE component = "App" -> isLoading
      [] component = "VolatilityFinder" -> dayScan.active
      [] component = "AdvancedScanner" -> scanning
      [] component = "DayAnalysis" -> loading

\* the number of its scans or loads that await their fetch
Awaited ==
    CASE component = "App" -> IF pending.active THEN 1 ELSE 0
      [] component = "VolatilityFinder" -> IF dayScan.active THEN 1 ELSE 0
      [] component = "AdvancedScanner" -> BagCardinality(scanFetches)
      [] component = "DayAnalysis" -> InFlight

\* C28: a scan or load of App, VolatilityFinder, AdvancedScanner or DayAnalysis that
\* starts sets the loading flag of its component; whatever the outcome of the fetch
\* the flag is eventually false again, and it is false whenever no scan or load of
\* the component awaits its fetch.
C28_LoadingFlagReset ==
    /\ [][Awaited' > Awaited => Busy']_vars
    /\ [](Awaited = 0 => ~Busy)
    /\ (Busy ~> ~Busy)

\* a load has ended on a response it did not take, and the flag is down
C28_Witness ==
    /\ lastResponse.handled
    /\ ~lastResponse.taken
    /\ Awaited = 0
    /\ ~Busy

====
